---- MODULE Spec2Model ----
(***************************************************************************)
(* A model of slackcli: the credential store (lib/workspaces.ts), the auth  *)
(* orchestrator (lib/auth.ts), the dual-transport API client               *)
(* (lib/slack-client.ts), the cURL token extractor (lib/curl-parser.ts),    *)
(* the clipboard reader (lib/clipboard.ts) and the updater (lib/updater.ts). *)
(*                                                                         *)
(* The specifications share the variables:                                 *)
(*   Spec        the credential store                                      *)
(*   AuthSpec    the auth orchestrator on top of the store                 *)
(*   ClientSpec  one SlackClient bound to one credential                   *)
(*   CurlSpec    parseCurlCommand applied to generated cURL texts          *)
(*   BatchSpec   the batch fan-outs (getUsersInfo, list-unreads)            *)
(*   PermSpec    the store on a file system that holds entries already      *)
(*   CorruptSpec the store on a file that is not a store document           *)
(*   RaceSpec    store operations of concurrent processes                   *)
(*   QuoteSpec   parseCurlCommand on one request in every quoting           *)
(*   LooksSpec   looksLikeCurlCommand applied to short texts                *)
(*   ClipSpec    readClipboard and the events of the command it spawns      *)
(*   UpdateSpec  performUpdate and the files it moves                       *)
(***************************************************************************)
EXTENDS Integers, Sequences, FiniteSets, TLC

VARIABLES
  file,        \* ~/.config/slackcli/workspaces.json: [exists, content]
  last,        \* record of the last store / auth operation and its outcome
  config,      \* the credential the SlackClient is bound to
  inv,         \* the current client invocation: operation, network calls, outcome
  up,          \* uploadFiles: position in the loop and its local variables
  curlParts,   \* the pieces the cURL text was assembled from
  curlInput,   \* the text handed to parseCurlCommand (a sequence of lexemes)
  parsed,      \* what parseCurlCommand returned or threw
  batch,       \* a batch fan-out in progress: its items, calls in flight, results
  fs,          \* the config directory and the credentials file as file-system entries
  proc,        \* concurrent CLI processes running a store operation: loaded data, position
  clip,        \* readClipboard: the spawned command, its events and the promise
  upd          \* performUpdate: its position and the files it moves

vars ==
  <<file, last, config, inv, up, curlParts, curlInput, parsed, batch, fs, proc, clip, upd>>
storeVars == <<file, last>>
clientVars == <<config, inv, up>>
curlVars == <<curlParts, curlInput, parsed>>
batchVars == <<batch>>
fsVars == <<fs>>
raceVars == <<proc>>
toolVars == <<clip, upd>>

(***************************************************************************)
(* JavaScript values                                                       *)
(***************************************************************************)
Undefined == "<undefined>"        \* the value undefined (an absent property)
Null == [null |-> TRUE]           \* null where an object is expected

\* JS truthiness of a string-or-undefined value: !v is true for undefined and ''
Truthy(v) == v /= Undefined /\ v /= ""

\* obj[k] on a parsed JSON object: undefined when the property is absent
Prop(obj, k) == IF k \in DOMAIN obj THEN obj[k] ELSE Undefined

(***************************************************************************)
(* Bounds and input domains                                                *)
(***************************************************************************)
NumIds == 3
IdTable == <<"T1", "T2", "T3", "T4", "T5">>
WorkspaceIds == {IdTable[i] : i \in 1..NumIds}
\* "T1" is also a workspace id: a name can collide with another entry's key
WorkspaceNames == {"T1", "acme"}
AuthTypes == {"standard", "browser"}
Identifiers == WorkspaceIds \cup WorkspaceNames \cup {"nobody"}

(***************************************************************************)
(* types/index.ts: WorkspaceConfig (StandardAuthConfig | BrowserAuthConfig) *)
(* Each variant has its own fields; Prop reads one that may be absent.      *)
(***************************************************************************)
StandardAuthConfig(id, name, token) ==
  [workspace_id |-> id, workspace_name |-> name, auth_type |-> "standard",
   token |-> token, token_type |-> IF token = "xoxb-1" THEN "bot" ELSE "user"]

BrowserAuthConfig(id, name, url, xoxd, xoxc) ==
  [workspace_id |-> id, workspace_name |-> name, auth_type |-> "browser",
   workspace_url |-> url, xoxd_token |-> xoxd, xoxc_token |-> xoxc]

Tokens == {"xoxb-1", "xoxp-1"}
WorkspaceUrl == "https://acme.slack.com"
\* a string the transports encode is a sequence of characters
XoxdToken == <<"xoxd-", "a", "+", "b">>
XoxcToken == "xoxc-1"

\* the credentials addWorkspace is handed: one of each variant per workspace
\* id; the browser one is named like the workspace id "T1"
Configs ==
  {StandardAuthConfig(id, "acme", "xoxb-1") : id \in WorkspaceIds}
  \cup {BrowserAuthConfig(id, "T1", WorkspaceUrl, XoxdToken, XoxcToken) : id \in WorkspaceIds}

(***************************************************************************)
(* WorkspacesData: { default_workspace?: string, workspaces: Record }       *)
(* The workspaces object is a sequence of configs in insertion order, the   *)
(* order Object.keys / Object.values enumerate string keys in; the key of   *)
(* an entry is its workspace_id.                                            *)
(***************************************************************************)
EmptyData == [workspaces |-> <<>>]

ObjectKeys(ws) == [i \in 1..Len(ws) |-> ws[i].workspace_id]
HasKey(ws, id) == \E i \in 1..Len(ws) : ws[i].workspace_id = id
KeyIndex(ws, id) == CHOOSE i \in 1..Len(ws) : ws[i].workspace_id = id
\* ws[id] = cfg : an existing key keeps its position, a new key goes last
SetKey(ws, id, cfg) ==
  IF HasKey(ws, id) THEN [ws EXCEPT ![KeyIndex(ws, id)] = cfg] ELSE Append(ws, cfg)
\* delete ws[id]
DeleteKey(ws, id) == SelectSeq(ws, LAMBDA c : c.workspace_id /= id)

\* JSON.stringify(data): a property whose value is undefined is left out
Stringify(data) ==
  IF Prop(data, "default_workspace") = Undefined
    THEN [workspaces |-> data.workspaces]
    ELSE [workspaces |-> data.workspaces, default_workspace |-> data.default_workspace]

NoFile == [exists |-> FALSE, content |-> EmptyData]

\* a file whose text JSON.parse rejects
NotJson == [raw |-> "{ not json"]
\* loadWorkspaces: an absent file is an empty store, and so is a text that
\* JSON.parse throws on (the catch); otherwise the value JSON.parse builds is
\* returned as it is, with exactly the properties the document holds
LoadWorkspaces(f) ==
  IF ~f.exists THEN EmptyData
  ELSE IF f.content = NotJson THEN EmptyData
  ELSE f.content

\* saveWorkspaces
SaveWorkspaces(data) == [exists |-> TRUE, content |-> Stringify(data)]

(***************************************************************************)
(* The store operations as functions from the file to                      *)
(* [file: the file afterwards, error: the message thrown (<<>> if none),   *)
(*  saved: whether saveWorkspaces ran, ret: the value returned]             *)
(***************************************************************************)
Outcome(f, err, saved, ret) == [file |-> f, error |-> err, saved |-> saved, ret |-> ret]

\* data.workspaces is undefined: data.workspaces[k] and Object.values(data.workspaces)
\* throw a TypeError, which no store operation catches
LacksWorkspaces(data) == "workspaces" \notin DOMAIN data
TypeError == <<"TypeError", "undefined is not an object">>

\* mutant of addWorkspace: every added credential becomes the default
addWorkspace_AlwaysDefault(f, cfg) ==
  LET data == LoadWorkspaces(f)
      ws == SetKey(data.workspaces, cfg.workspace_id, cfg)
  IN Outcome(SaveWorkspaces([workspaces |-> ws, default_workspace |-> cfg.workspace_id]),
             <<>>, TRUE, Null)

addWorkspace(f, cfg) ==
  LET data == LoadWorkspaces(f)
      ws == SetKey(data.workspaces, cfg.workspace_id, cfg)
      def == IF ~Truthy(Prop(data, "default_workspace"))
               THEN cfg.workspace_id
               ELSE data.default_workspace
  IN IF LacksWorkspaces(data) THEN Outcome(f, TypeError, FALSE, Null)
     ELSE Outcome(SaveWorkspaces([workspaces |-> ws, default_workspace |-> def]),
                  <<>>, TRUE, Null)

\* mutant of removeWorkspace: the default moves to the last remaining key
removeWorkspace_LastRemaining(f, workspaceId) ==
  LET data == LoadWorkspaces(f)
      ws == DeleteKey(data.workspaces, workspaceId)
      remainingIds == ObjectKeys(ws)
      def == IF Prop(data, "default_workspace") = workspaceId
               THEN (IF Len(remainingIds) > 0 THEN remainingIds[Len(remainingIds)] ELSE Undefined)
               ELSE Prop(data, "default_workspace")
  IN IF ~HasKey(data.workspaces, workspaceId)
       THEN Outcome(f, <<"Workspace ", workspaceId, " not found">>, FALSE, Null)
       ELSE Outcome(SaveWorkspaces([workspaces |-> ws, default_workspace |-> def]),
                    <<>>, TRUE, Null)

\* mutant of removeWorkspace: the default pointer is left as it was
removeWorkspace_NoRepoint(f, workspaceId) ==
  LET data == LoadWorkspaces(f)
      ws == DeleteKey(data.workspaces, workspaceId)
  IN IF ~HasKey(data.workspaces, workspaceId)
       THEN Outcome(f, <<"Workspace ", workspaceId, " not found">>, FALSE, Null)
       ELSE Outcome(SaveWorkspaces([workspaces |-> ws,
                                    default_workspace |-> Prop(data, "default_workspace")]),
                    <<>>, TRUE, Null)

removeWorkspace(f, workspaceId) ==
  LET data == LoadWorkspaces(f)
      ws == DeleteKey(data.workspaces, workspaceId)
      remainingIds == ObjectKeys(ws)
      def == IF Prop(data, "default_workspace") = workspaceId
               THEN (IF Len(remainingIds) > 0 THEN remainingIds[1] ELSE Undefined)
               ELSE Prop(data, "default_workspace")
  IN IF LacksWorkspaces(data) THEN Outcome(f, TypeError, FALSE, Null)
     ELSE IF ~HasKey(data.workspaces, workspaceId)
       THEN Outcome(f, <<"Workspace ", workspaceId, " not found">>, FALSE, Null)
       ELSE Outcome(SaveWorkspaces([workspaces |-> ws, default_workspace |-> def]),
                    <<>>, TRUE, Null)

\* mutant of setDefaultWorkspace: no existence check
setDefaultWorkspace_Unchecked(f, workspaceId) ==
  LET data == LoadWorkspaces(f)
  IN Outcome(SaveWorkspaces([workspaces |-> data.workspaces,
                             default_workspace |-> workspaceId]),
             <<>>, TRUE, Null)

setDefaultWorkspace(f, workspaceId) ==
  LET data == LoadWorkspaces(f)
  IN IF LacksWorkspaces(data) THEN Outcome(f, TypeError, FALSE, Null)
     ELSE IF ~HasKey(data.workspaces, workspaceId)
       THEN Outcome(f, <<"Workspace ", workspaceId, " not found">>, FALSE, Null)
       ELSE Outcome(SaveWorkspaces([workspaces |-> data.workspaces,
                                    default_workspace |-> workspaceId]),
                    <<>>, TRUE, Null)

\* Object.values(ws).find(w => w.workspace_name === identifier)
FindByName(ws, identifier) ==
  LET hits == {i \in 1..Len(ws) : ws[i].workspace_name = identifier}
  IN IF hits = {} THEN Null
     ELSE ws[CHOOSE i \in hits : \A j \in hits : i <= j]

\* mutant of getWorkspace: the name scan runs before the key lookup
getWorkspace_NameFirst(f, identifier) ==
  LET data == LoadWorkspaces(f)
      def == Prop(data, "default_workspace")
  IN IF ~Truthy(identifier)
       THEN (IF ~Truthy(def) THEN Null
             ELSE IF HasKey(data.workspaces, def)
                    THEN data.workspaces[KeyIndex(data.workspaces, def)]
                    ELSE Null)
     ELSE IF FindByName(data.workspaces, identifier) /= Null
       THEN FindByName(data.workspaces, identifier)
     ELSE IF HasKey(data.workspaces, identifier)
       THEN data.workspaces[KeyIndex(data.workspaces, identifier)]
     ELSE Null

\* the TypeError a getWorkspace call ends with, in place of its value
Thrown == [thrown |-> TypeError]

\* getWorkspace(identifier?): the config found, or Null
getWorkspace(f, identifier) ==
  LET data == LoadWorkspaces(f)
      def == Prop(data, "default_workspace")
  IN IF ~Truthy(identifier)
       THEN (IF ~Truthy(def) THEN Null
             ELSE IF LacksWorkspaces(data) THEN Thrown
             ELSE IF HasKey(data.workspaces, def)
                    THEN data.workspaces[KeyIndex(data.workspaces, def)]
                    ELSE Null)
     ELSE IF LacksWorkspaces(data) THEN Thrown
     ELSE IF HasKey(data.workspaces, identifier)
       THEN data.workspaces[KeyIndex(data.workspaces, identifier)]
     ELSE FindByName(data.workspaces, identifier)

\* getAllWorkspaces(): Object.values(data.workspaces)
getAllWorkspaces(f) ==
  LET data == LoadWorkspaces(f)
  IN IF LacksWorkspaces(data) THEN Outcome(f, TypeError, FALSE, Null)
     ELSE Outcome(f, <<>>, FALSE, data.workspaces)

clearAllWorkspaces(f) == Outcome(SaveWorkspaces(EmptyData), <<>>, TRUE, Null)

(***************************************************************************)
(* The remote side: what one HTTP exchange can come back with               *)
(***************************************************************************)
\* net: "error" is a DNS/TCP/TLS failure (fetch rejects); status: the HTTP
\* status; body: the parsed JSON body
Response(net, status, body) == [net |-> net, status |-> status, body |-> body]

HttpOk == 200
HttpServerError == 500
NoResponse == Response("none", 0, [ok |-> FALSE])

\* the teams auth.test can answer for
TeamIds == {"T1", "T2"}
AuthTestBodies ==
  {[ok |-> TRUE, team_id |-> id, team |-> "Acme Corp"] : id \in TeamIds}
  \cup {[ok |-> TRUE, team_id |-> id] : id \in TeamIds}
ErrorBody == [ok |-> FALSE, error |-> "invalid_auth"]

AuthTestResponses ==
  {Response("error", 0, ErrorBody)}
  \cup {Response("ok", st, b) : st \in {HttpOk, HttpServerError},
                                b \in AuthTestBodies \cup {ErrorBody}}

\* response.ok
ResponseOk(resp) == resp.status >= 200 /\ resp.status <= 299

(***************************************************************************)
(* SlackClient: the two transports.  A request evaluates to                *)
(* [threw, message: the Error message as its ': '-joined segments,          *)
(*  value: the value returned, calls: the network calls it made]            *)
(* A call records the method of SlackClient that issued it (issuer).        *)
(***************************************************************************)
Returned(value, calls) == [threw |-> FALSE, message |-> <<>>, value |-> value, calls |-> calls]
Threw(message, calls) == [threw |-> TRUE, message |-> message, value |-> Null, calls |-> calls]

\* String(v) as URLSearchParams applies it to each value
ToFormString(v) == IF v = Undefined THEN "undefined" ELSE v

\* new URLSearchParams({ token: xoxc_token, ...params }): a later property of
\* the same name replaces an earlier one
FormBody(xoxc, params) ==
  [k \in {"token"} \cup DOMAIN params |->
     IF k \in DOMAIN params THEN ToFormString(params[k]) ELSE xoxc]

\* encodeURIComponent: every character outside A-Za-z0-9-_.!~*'() becomes %XX
EncodeChar(c) ==
  CASE c = "+" -> "%2B"
    [] c = "/" -> "%2F"
    [] c = "=" -> "%3D"
    [] c = "%" -> "%25"
    [] c = ";" -> "%3B"
    [] c = " " -> "%20"
    [] OTHER -> c
EncodeURIComponent(str) == [i \in 1..Len(str) |-> EncodeChar(str[i])]

UserAgent == "Mozilla/5.0 (compatible; SlackCLI/0.1.0)"

\* the call this.webClient.apiCall(method, params) puts on the wire
SdkCall(cfg, method, params) ==
  [issuer |-> "standardRequest", transport |-> "sdk", httpMethod |-> "POST",
   url |-> <<"https://slack.com", "/api/", method>>,
   headers |-> [Authorization |-> <<"Bearer ", cfg.token>>],
   form |-> params]

\* WebClient.apiCall rejects on a network error, on a non-2xx status and on ok:false
standardRequest(cfg, method, params, resp) ==
  IF cfg.auth_type /= "standard"
    THEN Threw(<<"WebClient not initialized">>, <<>>)
  ELSE LET call == SdkCall(cfg, method, params)
       IN IF resp.net = "error"
            THEN Threw(<<"Slack API error", "A request error occurred">>, <<call>>)
          ELSE IF ~ResponseOk(resp)
            THEN Threw(<<"Slack API error", "An HTTP protocol error occurred", ToString(resp.status)>>, <<call>>)
          ELSE IF ~resp.body.ok
            THEN Threw(<<"Slack API error", "An API error occurred", Prop(resp.body, "error")>>, <<call>>)
          ELSE Returned(resp.body, <<call>>)

\* mutant of BrowserCall: the xoxd token goes into the Cookie header as it is
BrowserCall_RawCookie(cfg, method, params) ==
  [issuer |-> "browserRequest", transport |-> "fetch", httpMethod |-> "POST",
   url |-> <<cfg.workspace_url, "/api/", method>>,
   headers |-> [Cookie |-> <<"d=">> \o cfg.xoxd_token,
                ContentType |-> "application/x-www-form-urlencoded",
                Origin |-> "https://app.slack.com",
                UserAgent |-> UserAgent],
   form |-> FormBody(cfg.xoxc_token, params)]

\* the fetch(url, {method: 'POST', headers, body: formBody}) of browserRequest
BrowserCall(cfg, method, params) ==
  [issuer |-> "browserRequest", transport |-> "fetch", httpMethod |-> "POST",
   url |-> <<cfg.workspace_url, "/api/", method>>,
   headers |-> [Cookie |-> <<"d=">> \o EncodeURIComponent(cfg.xoxd_token),
                ContentType |-> "application/x-www-form-urlencoded",
                Origin |-> "https://app.slack.com",
                UserAgent |-> UserAgent],
   form |-> FormBody(cfg.xoxc_token, params)]

browserRequest(cfg, method, params, resp) ==
  IF cfg.auth_type /= "browser"
    THEN Threw(<<"Invalid auth type">>, <<>>)
  ELSE LET call == BrowserCall(cfg, method, params)
       IN IF resp.net = "error"
            THEN Threw(<<"Slack API error", "fetch failed">>, <<call>>)
          ELSE IF ~ResponseOk(resp)
            THEN Threw(<<"Slack API error", "HTTP error! status", ToString(resp.status)>>, <<call>>)
          ELSE IF ~resp.body.ok
            THEN Threw(<<"Slack API error",
                         IF Truthy(Prop(resp.body, "error")) THEN resp.body.error
                         ELSE "Unknown API error">>, <<call>>)
          ELSE Returned(resp.body, <<call>>)

\* mutant of request: a failed attempt is made a second time
request_RetryOnce(cfg, method, params, resp) ==
  LET r == IF cfg.auth_type = "standard"
             THEN standardRequest(cfg, method, params, resp)
             ELSE browserRequest(cfg, method, params, resp)
  IN IF r.threw THEN [r EXCEPT !.calls = r.calls \o r.calls] ELSE r

\* request(method, params): dispatch on the credential's auth_type
request(cfg, method, params, resp) ==
  IF cfg.auth_type = "standard"
    THEN standardRequest(cfg, method, params, resp)
    ELSE browserRequest(cfg, method, params, resp)

NoParams == [x \in {} |-> Undefined]

testAuth(cfg, resp) == request(cfg, "auth.test", NoParams, resp)

(***************************************************************************)
(* SlackClient: the operations that do not go through request              *)
(***************************************************************************)
\* encodeURIComponent(this.config.xoxd_token); an absent token reads as undefined
CookieValue(cfg) ==
  IF "xoxd_token" \in DOMAIN cfg THEN EncodeURIComponent(cfg.xoxd_token) ELSE <<"undefined">>

\* createDraft below its guard: the form, the fetch and the response checks
DraftFetch(cfg, channelId, text, thread_ts, resp) ==
  LET destination == IF Truthy(thread_ts)
                       THEN [channel_id |-> channelId, thread_ts |-> thread_ts,
                             broadcast |-> FALSE]
                       ELSE [channel_id |-> channelId]
      call == [issuer |-> "createDraft", transport |-> "fetch", httpMethod |-> "POST",
               url |-> <<Prop(cfg, "workspace_url"), "/api/", "drafts.create">>,
               headers |-> [Cookie |-> <<"d=">> \o CookieValue(cfg),
                            ContentType |-> "application/x-www-form-urlencoded",
                            Origin |-> "https://app.slack.com",
                            UserAgent |-> UserAgent],
               form |-> [token |-> ToFormString(Prop(cfg, "xoxc_token")),
                         client_msg_id |-> "uuid",
                         blocks |-> text,
                         destinations |-> <<destination>>,
                         attachments |-> "",
                         file_ids |-> "[]",
                         is_from_composer |-> "false"]]
  IN IF resp.net = "error" THEN Threw(<<"fetch failed">>, <<call>>)
     ELSE IF ~ResponseOk(resp)
       THEN Threw(<<"HTTP error! status", ToString(resp.status)>>, <<call>>)
     ELSE IF ~resp.body.ok
       THEN Threw(<<IF Truthy(Prop(resp.body, "error")) THEN resp.body.error
                    ELSE "Unknown API error">>, <<call>>)
     ELSE Returned(resp.body, <<call>>)

\* mutant of createDraft: the standard-credential guard is missing
createDraft_NoGuard(cfg, channelId, text, thread_ts, resp) ==
  DraftFetch(cfg, channelId, text, thread_ts, resp)

\* createDraft(channelId, text, {thread_ts}): browser credentials only
createDraft(cfg, channelId, text, thread_ts, resp) ==
  IF cfg.auth_type = "standard"
    THEN Threw(<<"Draft creation requires browser authentication">>, <<>>)
    ELSE DraftFetch(cfg, channelId, text, thread_ts, resp)

\* downloadFile(url): Authorization for both variants, plus the cookie for browser
downloadFile(cfg, url, resp) ==
  LET token == IF cfg.auth_type = "standard" THEN cfg.token ELSE cfg.xoxc_token
      headers == IF cfg.auth_type = "browser"
                   THEN [Authorization |-> <<"Bearer ", token>>,
                         Cookie |-> <<"d=">> \o EncodeURIComponent(cfg.xoxd_token)]
                   ELSE [Authorization |-> <<"Bearer ", token>>]
      call == [issuer |-> "downloadFile", transport |-> "fetch", httpMethod |-> "GET", url |-> <<url>>,
               headers |-> headers, form |-> NoParams]
  IN IF resp.net = "error" THEN Threw(<<"fetch failed">>, <<call>>)
     ELSE IF ~ResponseOk(resp)
       THEN Threw(<<"Failed to download file", ToString(resp.status)>>, <<call>>)
     ELSE Returned(resp.body, <<call>>)

\* getFileHeaders(): Authorization for standard, the cookie alone for browser
getFileHeaders(cfg) ==
  IF cfg.auth_type = "standard"
    THEN [Authorization |-> <<"Bearer ", cfg.token>>, UserAgent |-> UserAgent]
    ELSE [Cookie |-> <<"d=">> \o EncodeURIComponent(cfg.xoxd_token), UserAgent |-> UserAgent]

\* fetchFileContent(url) / fetchFileBinary(url)
fetchFileContent(cfg, url, resp) ==
  LET call == [issuer |-> "fetchFileContent", transport |-> "fetch", httpMethod |-> "GET", url |-> <<url>>,
               headers |-> getFileHeaders(cfg), form |-> NoParams]
  IN IF resp.net = "error" THEN Threw(<<"Failed to fetch file", "fetch failed">>, <<call>>)
     ELSE IF ~ResponseOk(resp)
       THEN Threw(<<"Failed to fetch file", "HTTP error! status", ToString(resp.status)>>, <<call>>)
     ELSE Returned(resp.body, <<call>>)

(***************************************************************************)
(* SlackClient: the three-step upload                                      *)
(***************************************************************************)
\* getUploadUrl(filename, length)
getUploadUrl(cfg, filename, length, resp) ==
  request(cfg, "files.getUploadURLExternal",
          [filename |-> filename, length |-> ToString(length)], resp)

\* uploadToUrl(uploadUrl, fileContent, filename): a POST without credentials
uploadToUrl(uploadUrl, filename, resp) ==
  LET call == [issuer |-> "uploadToUrl", transport |-> "fetch", httpMethod |-> "POST", url |-> <<uploadUrl>>,
               headers |-> NoParams, form |-> [file |-> filename]]
  IN IF resp.net = "error" THEN Threw(<<"fetch failed">>, <<call>>)
     ELSE IF ~ResponseOk(resp)
       THEN Threw(<<"File upload failed: HTTP ", ToString(resp.status)>>, <<call>>)
     ELSE Returned(Null, <<call>>)

\* JSON.stringify of one { id, title? } entry
StringifyEntry(entry) ==
  IF "title" \in DOMAIN entry
    THEN "{\"id\":\"" \o entry.id \o "\",\"title\":\"" \o entry.title \o "\"}"
    ELSE "{\"id\":\"" \o entry.id \o "\"}"

RECURSIVE JoinEntries(_)
JoinEntries(entries) ==
  IF entries = <<>> THEN ""
  ELSE IF Len(entries) = 1 THEN StringifyEntry(entries[1])
  ELSE StringifyEntry(entries[1]) \o "," \o JoinEntries(Tail(entries))

\* JSON.stringify(files)
StringifyFiles(entries) == "[" \o JoinEntries(entries) \o "]"

\* if (v) params[k] = v
WithParam(params, k, v) ==
  IF Truthy(v)
    THEN [j \in DOMAIN params \cup {k} |-> IF j = k THEN v ELSE params[j]]
    ELSE params

\* completeUpload(files, {channel_id, thread_ts, initial_comment})
completeUpload(cfg, files, channel_id, thread_ts, initial_comment, resp) ==
  request(cfg, "files.completeUploadExternal",
          WithParam(WithParam(WithParam([files |-> StringifyFiles(files)],
                                        "channel_id", channel_id),
                              "thread_ts", thread_ts),
                    "initial_comment", initial_comment),
          resp)

\* filePath.split('/').pop() || 'file', a path being its '/'-separated segments
Filename(filePath) ==
  IF filePath[Len(filePath)] = "" THEN "file" ELSE filePath[Len(filePath)]

\* { id: file_id } with the title when options.titles?.[i] is truthy
FileEntry(file_id, title) ==
  IF Truthy(title) THEN [id |-> file_id, title |-> title] ELSE [id |-> file_id]

(***************************************************************************)
(* lib/auth.ts                                                             *)
(***************************************************************************)
\* the placeholder workspace_id of the provisional credential
TempId == "temp"

\* workspaceUrl.match(/https?:\/\/([\w.-]+)\.slack\.com/) ... split('.')[0]
\* on the workspace URLs of the model
DefaultName(workspaceUrl) ==
  IF workspaceUrl = "https://acme.slack.com" THEN "acme"
  ELSE IF workspaceUrl = "https://acme.enterprise.slack.com" THEN "acme"
  ELSE "workspace"

\* mutant of Authenticate: the provisional credential is saved before the probe
Authenticate_PersistFirst(f, tempConfig, workspaceName, resp) ==
  LET authTest == testAuth(tempConfig, resp)
      verified == [tempConfig EXCEPT
                     !.workspace_id = Prop(authTest.value, "team_id"),
                     !.workspace_name = IF Truthy(workspaceName) THEN workspaceName
                                        ELSE Prop(authTest.value, "team")]
      provisional == addWorkspace(f, tempConfig).file
  IN IF authTest.threw
       THEN Outcome(provisional, <<"Authentication failed">> \o authTest.message, TRUE, Null)
       ELSE Outcome(addWorkspace(provisional, verified).file, <<>>, TRUE, verified)

\* the try block shared by authenticateStandard and authenticateBrowser:
\* probe with the provisional credential, then persist the verified one
Authenticate(f, tempConfig, workspaceName, resp) ==
  LET authTest == testAuth(tempConfig, resp)
      verified == [tempConfig EXCEPT
                     !.workspace_id = Prop(authTest.value, "team_id"),
                     !.workspace_name = IF Truthy(workspaceName) THEN workspaceName
                                        ELSE Prop(authTest.value, "team")]
      added == addWorkspace(f, verified)
  IN IF authTest.threw
       THEN Outcome(f, <<"Authentication failed">> \o authTest.message, FALSE, Null)
     ELSE IF added.error /= <<>>
       THEN Outcome(f, <<"Authentication failed">> \o added.error, FALSE, Null)
     ELSE Outcome(added.file, <<>>, TRUE, verified)

authenticateStandard(f, token, workspaceName, resp) ==
  Authenticate(f, StandardAuthConfig(TempId, workspaceName, token), workspaceName, resp)

authenticateBrowser(f, xoxdToken, xoxcToken, workspaceUrl, workspaceName, resp) ==
  Authenticate(f,
               BrowserAuthConfig(TempId,
                                 IF Truthy(workspaceName) THEN workspaceName
                                 ELSE DefaultName(workspaceUrl),
                                 workspaceUrl, xoxdToken, xoxcToken),
               workspaceName, resp)

\* getAuthenticatedClient(workspaceIdentifier?): the credential the new client
\* is bound to, or the error thrown
getAuthenticatedClient(f, workspaceIdentifier) ==
  LET workspace == getWorkspace(f, workspaceIdentifier)
  IN IF workspace = Thrown THEN Outcome(f, TypeError, FALSE, Null)
     ELSE IF workspace = Null
       THEN (IF Truthy(workspaceIdentifier)
               THEN Outcome(f, <<"Workspace not found", workspaceIdentifier>>, FALSE, Null)
               ELSE Outcome(f, <<"No workspace configured. Run \"slackcli auth login\" first.">>,
                            FALSE, Null))
       ELSE Outcome(f, <<>>, FALSE, workspace)

(***************************************************************************)
(* lib/curl-parser.ts.  A text is a sequence of lexemes: single characters  *)
(* where the patterns look at characters (quotes, blanks, ';', '$', '.',    *)
(* percent escapes) and whole words where they look at a literal or at a    *)
(* run of one character class.                                              *)
(***************************************************************************)
\* \s
WsLex == {" ", "\t", "\n", "\r"}
\* runs of [\w.-] that occur in host names
HostLex == {"acme", "myorg", "enterprise", "example", ".", ".slack.com", ".com"}
\* runs of [a-zA-Z0-9-]
TokenLex == {"AAA", "BBB", "111", "222", "-", "test", "A", "B"}

\* the least element of a non-empty set of positions
FirstAt(S) == CHOOSE k \in S : \A j \in S : k <= j
LastAt(S) == CHOOSE k \in S : \A j \in S : k >= j
\* the position after the longest run, from i, of lexemes in cls
RunIn(t, i, cls) ==
  IF i > Len(t) THEN i
  ELSE FirstAt({k \in i..(Len(t) + 1) : k = Len(t) + 1 \/ t[k] \notin cls})
\* the position after the longest run, from i, of lexemes not in excl
RunNotIn(t, i, excl) ==
  IF i > Len(t) THEN i
  ELSE FirstAt({k \in i..(Len(t) + 1) : k = Len(t) + 1 \/ t[k] \in excl})
At(t, i) == IF i >= 1 /\ i <= Len(t) THEN t[i] ELSE "<end>"

NoMatch == [ok |-> FALSE, g |-> <<>>]
Match(g) == [ok |-> TRUE, g |-> g]
\* the leftmost position where a pattern matches
Leftmost(t, MatchAt(_, _)) ==
  LET hits == {i \in 1..Len(t) : MatchAt(t, i).ok}
  IN IF hits = {} THEN NoMatch ELSE MatchAt(t, FirstAt(hits))

\* curl\s+'?(https?:\/\/([\w.-]+)\.slack\.com[^'"\s]*) at position i; g is group 2
UrlMatchAt(t, i) ==
  LET j == RunIn(t, i + 1, WsLex)
      k == IF At(t, j) = "'" THEN j + 1 ELSE j
      e == RunIn(t, k + 1, HostLex)
      ends == {m \in (k + 2)..(e - 1) : t[m] = ".slack.com"}
  IN IF /\ At(t, i) = "curl"
        /\ j > i + 1
        /\ At(t, k) \in {"https://", "http://"}
        /\ ends /= {}
       THEN Match(SubSeq(t, k + 1, LastAt(ends) - 1))
       ELSE NoMatch

\* '([^']+)' at position j
SingleQuotedAt(t, j) ==
  LET e == RunNotIn(t, j + 1, {"'"})
  IN IF At(t, j) = "'" /\ e > j + 1 /\ e <= Len(t)
       THEN Match(SubSeq(t, j + 1, e - 1))
       ELSE NoMatch

\* "([^"]+)" at position j
DoubleQuotedAt(t, j) ==
  LET e == RunNotIn(t, j + 1, {"\""})
  IN IF At(t, j) = "\"" /\ e > j + 1 /\ e <= Len(t)
       THEN Match(SubSeq(t, j + 1, e - 1))
       ELSE NoMatch

\* -b\s+'([^']+)'|--cookie\s+'([^']+)'|-H\s+'[Cc]ookie:\s*([^']+)' at position i
CookieMatchAt(t, i) ==
  LET j == RunIn(t, i + 1, WsLex)
      e == RunNotIn(t, j + 2, {"'"})
      \* \s* gives back its last blank when nothing else is left for ([^']+)
      k == IF RunIn(t, j + 2, WsLex) < e THEN RunIn(t, j + 2, WsLex) ELSE e - 1
  IN IF At(t, i) \in {"-b", "--cookie"} /\ j > i + 1
       THEN SingleQuotedAt(t, j)
     ELSE IF /\ At(t, i) = "-H" /\ j > i + 1
             /\ At(t, j) = "'"
             /\ At(t, j + 1) \in {"Cookie:", "cookie:"}
             /\ e > j + 2 /\ e <= Len(t)
       THEN Match(SubSeq(t, k, e - 1))
     ELSE NoMatch

\* (?:^|;\s*)d=(xoxd-[^;]+) at position i of the cookie header
XoxdMatchAt(c, i) ==
  LET e == RunNotIn(c, i + 2, {";"})
  IN IF /\ At(c, i) = "d="
        /\ \/ i = 1
           \/ \E p \in 1..(i - 1) : c[p] = ";" /\ \A q \in (p + 1)..(i - 1) : c[q] \in WsLex
        /\ At(c, i + 1) = "xoxd-"
        /\ e > i + 2
       THEN Match(SubSeq(c, i + 1, e - 1))
       ELSE NoMatch

\* --data-raw\s+\$?'([^']+)'|--data-raw\s+\$?"([^"]+)"|--data\s+\$?'([^']+)'|
\* --data\s+\$?"([^"]+)" at position i
DataMatchAt(t, i) ==
  LET j == RunIn(t, i + 1, WsLex)
      k == IF At(t, j) = "$" THEN j + 1 ELSE j
  IN IF At(t, i) \in {"--data-raw", "--data"} /\ j > i + 1
       THEN (IF SingleQuotedAt(t, k).ok THEN SingleQuotedAt(t, k) ELSE DoubleQuotedAt(t, k))
       ELSE NoMatch

\* name="token".*?(xoxc-[a-zA-Z0-9-]+) at position i of the data; '.' is any
\* character but a line terminator
XoxcMatchAt(d, i) ==
  LET starts == {j \in (i + 4)..Len(d) :
                   /\ d[j] = "xoxc-"
                   /\ At(d, j + 1) \in TokenLex
                   /\ \A q \in (i + 4)..(j - 1) : d[q] \notin {"\n", "\r"}}
      j == FirstAt(starts)
  IN IF /\ At(d, i) = "name=" /\ At(d, i + 1) = "\"" /\ At(d, i + 2) = "token"
        /\ At(d, i + 3) = "\""
        /\ starts /= {}
       THEN Match(SubSeq(d, j, RunIn(d, j + 1, TokenLex) - 1))
       ELSE NoMatch

\* decodeURIComponent of one lexeme; "URIError" for a malformed escape
DecodeLex(c) ==
  CASE c = "%2B" -> "+"
    [] c = "%2b" -> "+"
    [] c = "%2F" -> "/"
    [] c = "%3D" -> "="
    [] c = "%25" -> "%"
    [] c = "%20" -> " "
    [] c = "%" -> "URIError"
    [] c = "%ZZ" -> "URIError"
    [] OTHER -> c
DecodeURIComponent(str) == [i \in 1..Len(str) |-> DecodeLex(str[i])]
Malformed(str) == \E i \in 1..Len(str) : DecodeLex(str[i]) = "URIError"

\* fullSubdomain.split('.')[0]
FirstLabel(host) == SubSeq(host, 1, RunNotIn(host, 1, {"."}) - 1)

CurlParseError(field) == [done |-> TRUE, ok |-> FALSE, error |-> "CurlParseError", field |-> field]
Uncaught(name) == [done |-> TRUE, ok |-> FALSE, error |-> name, field |-> "none"]
ParsedCurlResult(workspaceName, workspaceUrl, xoxd, xoxc) ==
  [done |-> TRUE, ok |-> TRUE, error |-> "none", field |-> "none",
   workspaceName |-> workspaceName, workspaceUrl |-> workspaceUrl,
   xoxd |-> xoxd, xoxc |-> xoxc]

\* mutant of parseCurlCommand: the cookie token is looked for before the URL
parseCurlCommand_XoxdFirst(curlInput_) ==
  LET urlMatch == Leftmost(curlInput_, UrlMatchAt)
      cookieMatch == Leftmost(curlInput_, CookieMatchAt)
      xoxdMatch == Leftmost(cookieMatch.g, XoxdMatchAt)
      dataMatch == Leftmost(curlInput_, DataMatchAt)
      xoxcMatch == Leftmost(dataMatch.g, XoxcMatchAt)
  IN IF ~xoxdMatch.ok THEN CurlParseError("xoxd")
     ELSE IF ~urlMatch.ok THEN CurlParseError("workspace")
     ELSE IF Malformed(xoxdMatch.g) THEN Uncaught("URIError")
     ELSE IF ~xoxcMatch.ok THEN CurlParseError("xoxc")
     ELSE ParsedCurlResult(FirstLabel(urlMatch.g),
                           <<"https://">> \o urlMatch.g \o <<".slack.com">>,
                           DecodeURIComponent(xoxdMatch.g), xoxcMatch.g)

\* parseCurlCommand(curlInput)
parseCurlCommand(curlInput_) ==
  LET urlMatch == Leftmost(curlInput_, UrlMatchAt)
      \* cookieMatch ? (cookieMatch[1] || cookieMatch[2] || cookieMatch[3]) : ''
      cookieMatch == Leftmost(curlInput_, CookieMatchAt)
      xoxdMatch == Leftmost(cookieMatch.g, XoxdMatchAt)
      dataMatch == Leftmost(curlInput_, DataMatchAt)
      xoxcMatch == Leftmost(dataMatch.g, XoxcMatchAt)
  IN IF ~urlMatch.ok THEN CurlParseError("workspace")
     ELSE IF ~xoxdMatch.ok THEN CurlParseError("xoxd")
     ELSE IF Malformed(xoxdMatch.g) THEN Uncaught("URIError")
     ELSE IF ~xoxcMatch.ok THEN CurlParseError("xoxc")
     ELSE ParsedCurlResult(FirstLabel(urlMatch.g),
                           <<"https://">> \o urlMatch.g \o <<".slack.com">>,
                           DecodeURIComponent(xoxdMatch.g), xoxcMatch.g)

(***************************************************************************)
(* Spec: the commands that act on the credential store                      *)
(***************************************************************************)
\* last: the operation that ran last, its argument, the file before it, the
\* probe response it saw and its outcome
Last(op, arg, before, probe, out) ==
  [op |-> op, arg |-> arg, before |-> before, probe |-> probe,
   error |-> out.error, saved |-> out.saved, ret |-> out.ret]

\* permission bits as the octal digits <<user, group, others>>
DirMode == <<7, 0, 0>>       \* mkdir(..., { mode: 0o700 })
FileMode == <<6, 0, 0>>      \* writeFile(..., { mode: 0o600 })
\* the process's umask, one per run of the CLI
Umasks == {<<0, 2, 2>>, <<0, 7, 7>>, <<0, 0, 2>>}
Bit(d, b) == (d \div b) % 2
\* d & ~m on one octal digit
ClearBits(d, m) ==
  (IF Bit(d, 4) = 1 /\ Bit(m, 4) = 0 THEN 4 ELSE 0)
  + (IF Bit(d, 2) = 1 /\ Bit(m, 2) = 0 THEN 2 ELSE 0)
  + (IF Bit(d, 1) = 1 /\ Bit(m, 1) = 0 THEN 1 ELSE 0)
\* the mode an entry is created with: mode & ~umask
Masked(mode, umask) == [i \in 1..3 |-> ClearBits(mode[i], umask[i])]
Entry(mode) == [exists |-> TRUE, mode |-> mode]

\* ensureConfigDir: mkdir only when the directory does not exist
ensureConfigDir(fsys, umask) ==
  IF ~fsys.dir.exists
    THEN [fsys EXCEPT !.dir = Entry(Masked(DirMode, umask))]
    ELSE fsys
\* writeFile(WORKSPACES_FILE, text, { mode: 0o600 }): the mode is used only
\* when the file is created; an existing file is truncated and keeps its mode
writeFile(fsys, umask) ==
  IF ~fsys.file.exists
    THEN [fsys EXCEPT !.file = Entry(Masked(FileMode, umask))]
    ELSE fsys

\* the operations that return before they touch the store
SkipsStore(op, out) == op \in {"authenticateStandard", "authenticateBrowser"} /\ ~out.saved
\* the file system after an operation: loadWorkspaces and saveWorkspaces both
\* start with ensureConfigDir
FsAfter(fsys, umask, op, out) ==
  IF SkipsStore(op, out) THEN fsys
  ELSE IF out.saved THEN writeFile(ensureConfigDir(fsys, umask), umask)
  ELSE ensureConfigDir(fsys, umask)

StoreStep(op, arg, probe, out) ==
  /\ file' = out.file
  /\ last' = Last(op, arg, file, probe, out)
  /\ \E umask \in Umasks : fs' = FsAfter(fs, umask, op, out)
  /\ UNCHANGED <<clientVars, curlVars, batchVars, raceVars, toolVars>>

AddWorkspace ==
  \E cfg \in Configs : StoreStep("addWorkspace", cfg.workspace_id, NoResponse, addWorkspace(file, cfg))

RemoveWorkspace ==
  \E id \in WorkspaceIds \cup {"nobody"} :
    StoreStep("removeWorkspace", id, NoResponse, removeWorkspace(file, id))

SetDefaultWorkspace ==
  \E id \in WorkspaceIds \cup {"nobody"} :
    StoreStep("setDefaultWorkspace", id, NoResponse, setDefaultWorkspace(file, id))

ClearAllWorkspaces ==
  StoreStep("clearAllWorkspaces", Undefined, NoResponse, clearAllWorkspaces(file))

GetWorkspace ==
  \E x \in Identifiers \cup {Undefined} :
    LET workspace == getWorkspace(file, x)
    IN StoreStep("getWorkspace", x, NoResponse,
                 IF workspace = Thrown THEN Outcome(file, TypeError, FALSE, Null)
                 ELSE Outcome(file, <<>>, FALSE, workspace))

GetAllWorkspaces ==
  StoreStep("getAllWorkspaces", Undefined, NoResponse, getAllWorkspaces(file))

GetAuthenticatedClient ==
  \E x \in Identifiers \cup {Undefined} :
    StoreStep("getAuthenticatedClient", x, NoResponse, getAuthenticatedClient(file, x))

AuthenticateStandard ==
  \E token \in Tokens, name \in WorkspaceNames, resp \in AuthTestResponses :
    StoreStep("authenticateStandard", name, resp, authenticateStandard(file, token, name, resp))

AuthenticateBrowser ==
  \E name \in WorkspaceNames \cup {Undefined}, resp \in AuthTestResponses :
    StoreStep("authenticateBrowser", name, resp,
              authenticateBrowser(file, XoxdToken, XoxcToken, WorkspaceUrl, name, resp))

NoConfig == Null
NoInvocation == [op |-> "none", log |-> <<>>, threw |-> FALSE, message |-> <<>>]
IdleUpload ==
  [pc |-> "idle", n |-> 0, i |-> 0, titles |-> <<>>, onProgress |-> FALSE,
   fileEntries |-> <<>>, upload_url |-> Undefined, file_id |-> Undefined]
InitClient ==
  /\ config = NoConfig
  /\ inv = NoInvocation
  /\ up = IdleUpload
NoParts == [url |-> "none", cookie |-> "none", data |-> "none", sep |-> "none"]
NotParsed == [done |-> FALSE, ok |-> FALSE, error |-> "none", field |-> "none"]
InitCurl ==
  /\ curlParts = NoParts
  /\ curlInput = <<>>
  /\ parsed = NotParsed

\* no batch is running
NoBatch ==
  [op |-> "none", pc |-> "idle", ids |-> <<>>, i |-> 0, inflight |-> {}, users |-> <<>>,
   resps |-> <<>>, resolved |-> <<>>]
InitBatch == batch = NoBatch
\* neither the directory nor the file exists
NoEntry == [exists |-> FALSE, mode |-> <<0, 0, 0>>]
InitFs == fs = [dir |-> NoEntry, file |-> NoEntry]
\* the CLI processes that may run at the same time
NumProcs == 2
\* no process is inside a store operation: pc, the operation and its
\* argument, the file as loadWorkspaces read it, the file as saveWorkspaces
\* wrote it, and when (in events of all processes) it loaded and saved
NoProc ==
  [pc |-> "idle", op |-> "none", id |-> Undefined, snap |-> NoFile, written |-> NoFile,
   loadedAt |-> 0, savedAt |-> 0, error |-> <<>>]
InitRace == proc = [p \in 1..NumProcs |-> NoProc]

\* no clipboard read and no update is running
NoClip ==
  [pc |-> "idle", platform |-> "none", command |-> "none", resolved |-> FALSE,
   timer |-> "none", child |-> "none", killed |-> FALSE, stdout |-> <<>>, stderr |-> <<>>,
   settled |-> <<>>, rejected |-> FALSE, events |-> <<>>, returned |-> <<>>]
NoUpdate ==
  [pc |-> "idle", tag |-> <<>>, platform |-> "none", current |-> "old", backup |-> "none",
   tmp |-> "none", at |-> "none", threw |-> FALSE, message |-> <<>>]
InitTools ==
  /\ clip = NoClip
  /\ upd = NoUpdate

InitStore ==
  /\ file = NoFile
  /\ last = Last("none", Undefined, NoFile, NoResponse, Outcome(NoFile, <<>>, FALSE, Null))

Init == InitStore /\ InitClient /\ InitCurl /\ InitBatch /\ InitFs /\ InitRace /\ InitTools

Next ==
  \/ AddWorkspace
  \/ RemoveWorkspace
  \/ SetDefaultWorkspace
  \/ ClearAllWorkspaces
  \/ GetWorkspace
  \/ GetAuthenticatedClient

Spec == Init /\ [][Next]_vars

(***************************************************************************)
(* AuthSpec: the auth orchestrator filling the store, `auth remove` and     *)
(* `auth logout` emptying it                                                *)
(***************************************************************************)
AuthNext ==
  \/ AuthenticateStandard
  \/ AuthenticateBrowser
  \/ RemoveWorkspace
  \/ ClearAllWorkspaces

AuthSpec == Init /\ [][AuthNext]_vars

(***************************************************************************)
(* Properties of the credential store (Spec)                                *)
(***************************************************************************)
\* the store as the next command will load it
Workspaces == LoadWorkspaces(file).workspaces
DefaultWorkspace == Prop(LoadWorkspaces(file), "default_workspace")
\* the store as the last command loaded it
WorkspacesBefore == LoadWorkspaces(last.before).workspaces
DefaultBefore == Prop(LoadWorkspaces(last.before), "default_workspace")
StoredConfigs == {Workspaces[i] : i \in 1..Len(Workspaces)}

C6_AddKeepsDefault ==
  last.op = "addWorkspace" =>
    /\ Len(WorkspacesBefore) = 0 => DefaultWorkspace = last.arg
    /\ DefaultBefore /= Undefined => DefaultWorkspace = DefaultBefore

\* a record other than the default was replaced
C6_Witness ==
  /\ last.op = "addWorkspace"
  /\ HasKey(WorkspacesBefore, last.arg)
  /\ DefaultBefore /= Undefined /\ DefaultBefore /= last.arg
  /\ Workspaces /= WorkspacesBefore

\* C7: removing the default re-points it to the first remaining key, or
\* unsets it when nothing remains; removing another entry leaves it unchanged
C7_RemoveRepoints ==
  (last.op = "removeWorkspace" /\ last.error = <<>>) =>
    LET remaining == SelectSeq(ObjectKeys(WorkspacesBefore), LAMBDA k : k /= last.arg)
    IN /\ ObjectKeys(Workspaces) = remaining
       /\ IF DefaultBefore = last.arg
            THEN DefaultWorkspace = (IF remaining = <<>> THEN Undefined ELSE remaining[1])
            ELSE DefaultWorkspace = DefaultBefore

\* the removed default was not the first key and two entries remain
C7_Witness ==
  /\ last.op = "removeWorkspace" /\ last.error = <<>>
  /\ DefaultBefore = last.arg
  /\ ObjectKeys(WorkspacesBefore)[1] /= last.arg
  /\ Len(Workspaces) >= 2

ProbeFailed(resp) ==
  \/ resp.net = "error"
  \/ resp.status < 200 \/ resp.status > 299
  \/ ~resp.body.ok

IsAuthOp == last.op \in {"authenticateStandard", "authenticateBrowser"}

\* C2: when the auth.test probe fails, authenticateStandard and
\* authenticateBrowser fail with 'Authentication failed' and the store is
\* what it was; the store changes only after a successful probe
C2_NoPersistOnFailedProbe ==
  IsAuthOp =>
    /\ ProbeFailed(last.probe) =>
          /\ last.error /= <<>> /\ Head(last.error) = "Authentication failed"
          /\ file = last.before
          /\ ~last.saved
    /\ (file /= last.before \/ last.saved) => ~ProbeFailed(last.probe)

\* a probe answered ok:false with HTTP 200 while the store held credentials
C2_Witness ==
  /\ IsAuthOp
  /\ last.probe.net = "ok" /\ last.probe.status = 200 /\ ~last.probe.body.ok
  /\ Len(WorkspacesBefore) > 0
  /\ last.error /= <<>>

(***************************************************************************)
(* ClientSpec: one SlackClient, bound to one credential for its lifetime,   *)
(* serving one invocation at a time                                         *)
(***************************************************************************)
MaxFiles == 2

ClientConfigs ==
  {StandardAuthConfig("T1", "acme", "xoxb-1"),
   BrowserAuthConfig("T1", "acme", WorkspaceUrl, XoxdToken, XoxcToken)}

\* the operations that only build params and call this.request
RequestMethods ==
  {"auth.test", "conversations.list", "conversations.history", "chat.postMessage",
   "users.info", "reactions.add", "files.info", "search.messages"}

OkResponse == Response("ok", HttpOk, [ok |-> TRUE])
FailedResponses ==
  {Response("error", 0, ErrorBody), Response("ok", HttpServerError, ErrorBody),
   Response("ok", HttpOk, ErrorBody)}
ApiResponses == FailedResponses \cup {OkResponse}

PresignResponses ==
  FailedResponses
  \cup {Response("ok", HttpOk, [ok |-> TRUE, upload_url |-> "https://files.slack.com/upload/1",
                                file_id |-> "F1"]),
        Response("ok", HttpOk, [ok |-> TRUE, upload_url |-> "https://files.slack.com/upload/2",
                                file_id |-> "F2"])}
PostResponses ==
  {Response("error", 0, ErrorBody), Response("ok", HttpServerError, ErrorBody), OkResponse}

FileUrl == "https://files.slack.com/files-pri/T1-F1/download"
\* the paths of the files to upload, by position, and their byte lengths
PathTable == << <<"tmp", "a.png">>, <<"b.txt">>, <<"dir", "">>, <<"tmp", "d.txt">> >>
ByteLength == 5
Titles == {Undefined, "Title"}

\* the log of an invocation: progress callbacks and network calls, in order
ProgressEntry(step) == [kind |-> "progress", step |-> step]
CallEntries(calls, resp) == [k \in 1..Len(calls) |-> [kind |-> "call", call |-> calls[k], resp |-> resp]]
\* options.onProgress?.(step)
OnProgress(u, step) == IF u.onProgress THEN <<ProgressEntry(step)>> ELSE <<>>

Idle == up.pc \in {"idle", "done", "failed"}

\* an operation that is a single exchange
Invocation(op, r, resp) ==
  /\ Idle
  /\ inv' = [op |-> op, log |-> CallEntries(r.calls, resp), threw |-> r.threw,
             message |-> r.message]
  /\ up' = IdleUpload
  /\ UNCHANGED <<config, storeVars, curlVars, batchVars, fsVars, raceVars, toolVars>>

Request ==
  \E method \in RequestMethods, resp \in ApiResponses :
    Invocation(method, request(config, method, NoParams, resp), resp)

CreateDraft ==
  \E thread_ts \in {Undefined, "1234.5678"}, resp \in ApiResponses :
    Invocation("createDraft", createDraft(config, "C123", "hello", thread_ts, resp), resp)

DownloadFile ==
  \E resp \in ApiResponses :
    Invocation("downloadFile", downloadFile(config, FileUrl, resp), resp)

FetchFileContent ==
  \E resp \in ApiResponses :
    Invocation("fetchFileContent", fetchFileContent(config, FileUrl, resp), resp)

\* uploadFiles(filePaths, options): the call, before its first await
UploadFiles ==
  /\ Idle
  /\ \E n \in 0..MaxFiles, onProgress \in BOOLEAN :
       \E titles \in [1..n -> Titles] :
         up' = [IdleUpload EXCEPT !.pc = IF n = 0 THEN "complete" ELSE "read",
                                  !.n = n, !.i = 1, !.titles = titles,
                                  !.onProgress = onProgress]
  /\ inv' = [op |-> "uploadFiles", log |-> <<>>, threw |-> FALSE, message |-> <<>>]
  /\ UNCHANGED <<config, storeVars, curlVars, batchVars, fsVars, raceVars, toolVars>>

\* mutant of UploadFailed: the files uploaded so far are completed before
\* the error is passed on
UploadFailed_Finalize(message, log) ==
  LET c == completeUpload(config, up.fileEntries, "C123", Undefined, Undefined, OkResponse)
  IN /\ up' = [up EXCEPT !.pc = "failed"]
     /\ inv' = [inv EXCEPT !.log = log \o CallEntries(c.calls, OkResponse), !.threw = TRUE,
                           !.message = message]

\* a step of uploadFiles rejected: the error leaves uploadFiles as it is
UploadFailed(message, log) ==
  /\ up' = [up EXCEPT !.pc = "failed"]
  /\ inv' = [inv EXCEPT !.log = log, !.threw = TRUE, !.message = message]

\* await file.arrayBuffer()
UploadRead ==
  /\ up.pc = "read"
  /\ \/ up' = [up EXCEPT !.pc = "presign"] /\ UNCHANGED inv
     \/ UploadFailed(<<"ENOENT">>, inv.log)
  /\ UNCHANGED <<config, storeVars, curlVars, batchVars, fsVars, raceVars, toolVars>>

\* onProgress, then await this.getUploadUrl(filename, length)
UploadPresign ==
  /\ up.pc = "presign"
  /\ \E resp \in PresignResponses :
       LET filename == Filename(PathTable[up.i])
           r == getUploadUrl(config, filename, ByteLength, resp)
           log == inv.log
                  \o OnProgress(up, <<"Uploading file ", ToString(up.i), "/", ToString(up.n),
                                     filename>>)
                  \o CallEntries(r.calls, resp)
       IN IF r.threw
            THEN UploadFailed(r.message, log)
            ELSE /\ up' = [up EXCEPT !.pc = "post", !.upload_url = r.value.upload_url,
                                     !.file_id = r.value.file_id]
                 /\ inv' = [inv EXCEPT !.log = log]
  /\ UNCHANGED <<config, storeVars, curlVars, batchVars, fsVars, raceVars, toolVars>>

\* mutant of UploadPost: every uploaded file is completed on its own
UploadPost_CompletePerFile ==
  /\ up.pc = "post"
  /\ \E resp \in PostResponses :
       LET r == uploadToUrl(up.upload_url, Filename(PathTable[up.i]), resp)
           entry == FileEntry(up.file_id, up.titles[up.i])
           c == completeUpload(config, <<entry>>, "C123", Undefined, Undefined, OkResponse)
           log == inv.log \o CallEntries(r.calls, resp)
       IN IF r.threw
            THEN UploadFailed(r.message, log)
            ELSE /\ up' = [up EXCEPT !.pc = IF up.i < up.n THEN "read" ELSE "done",
                                     !.i = up.i + 1,
                                     !.fileEntries = Append(up.fileEntries, entry)]
                 /\ inv' = [inv EXCEPT !.log = log \o CallEntries(c.calls, OkResponse)]
  /\ UNCHANGED <<config, storeVars, curlVars, batchVars, fsVars, raceVars, toolVars>>

\* await this.uploadToUrl(upload_url, fileContent, filename), then the entry
UploadPost ==
  /\ up.pc = "post"
  /\ \E resp \in PostResponses :
       LET r == uploadToUrl(up.upload_url, Filename(PathTable[up.i]), resp)
           entry == FileEntry(up.file_id, up.titles[up.i])
           log == inv.log \o CallEntries(r.calls, resp)
       IN IF r.threw
            THEN UploadFailed(r.message, log)
            ELSE /\ up' = [up EXCEPT !.pc = IF up.i < up.n THEN "read" ELSE "complete",
                                     !.i = up.i + 1,
                                     !.fileEntries = Append(up.fileEntries, entry)]
                 /\ inv' = [inv EXCEPT !.log = log]
  /\ UNCHANGED <<config, storeVars, curlVars, batchVars, fsVars, raceVars, toolVars>>

\* mutant of UploadComplete: the finalizing step is not announced
UploadComplete_Unannounced ==
  /\ up.pc = "complete"
  /\ \E resp \in ApiResponses :
       LET r == completeUpload(config, up.fileEntries, "C123", Undefined, Undefined, resp)
           log == inv.log \o CallEntries(r.calls, resp)
       IN IF r.threw
            THEN UploadFailed(r.message, log)
            ELSE /\ up' = [up EXCEPT !.pc = "done"]
                 /\ inv' = [inv EXCEPT !.log = log]
  /\ UNCHANGED <<config, storeVars, curlVars, batchVars, fsVars, raceVars, toolVars>>

\* onProgress('Finalizing upload...'), then return this.completeUpload(...)
UploadComplete ==
  /\ up.pc = "complete"
  /\ \E resp \in ApiResponses :
       LET r == completeUpload(config, up.fileEntries, "C123", Undefined, Undefined, resp)
           log == inv.log \o OnProgress(up, <<"Finalizing upload...">>)
                          \o CallEntries(r.calls, resp)
       IN IF r.threw
            THEN UploadFailed(r.message, log)
            ELSE /\ up' = [up EXCEPT !.pc = "done"]
                 /\ inv' = [inv EXCEPT !.log = log]
  /\ UNCHANGED <<config, storeVars, curlVars, batchVars, fsVars, raceVars, toolVars>>

(***************************************************************************)
(* resolveChannel: a name or an id, looked up in the paged channel listing. *)
(* Channel names and ids are sequences of characters.                       *)
(***************************************************************************)
UpperLetters ==
  {"A", "B", "C", "D", "E", "F", "G", "H", "I", "J", "K", "L", "M", "N", "O", "P", "Q", "R",
   "S", "T", "U", "V", "W", "X", "Y", "Z"}
LowerLetters ==
  {"a", "b", "c", "d", "e", "f", "g", "h", "i", "j", "k", "l", "m", "n", "o", "p", "q", "r",
   "s", "t", "u", "v", "w", "x", "y", "z"}
Digits == {"0", "1", "2", "3", "4", "5", "6", "7", "8", "9"}

\* /^[CGD][A-Z0-9]+$/i.test(s)
LooksLikeChannelId(s) ==
  /\ Len(s) >= 2
  /\ s[1] \in {"C", "G", "D", "c", "g", "d"}
  /\ \A i \in 2..Len(s) : s[i] \in UpperLetters \cup LowerLetters \cup Digits

\* channelOrName.replace(/^#/, '')
StripHash(s) == IF s /= <<>> /\ Head(s) = "#" THEN Tail(s) ELSE s

SlackChannel(id, name) == [id |-> id, name |-> name]

\* the workspace's channels, in listing order
NumChannels == 3
ChannelTable ==
  << SlackChannel(<<"C", "0", "1">>, <<"o", "p", "s">>),
     SlackChannel(<<"C", "0", "2">>, <<"g", "e", "n">>),
     SlackChannel(<<"G", "0", "3">>, <<"d", "-", "x">>),
     SlackChannel(<<"C", "0", "4">>, <<"d", "e", "v", "1">>),
     SlackChannel(<<"C", "0", "5">>, <<"q", "a">>) >>
Directory == SubSeq(ChannelTable, 1, NumChannels)
MaxPerPage == 2

\* the cursor that addresses the page starting at channel k
CursorAt(k) == IF k = 1 THEN Undefined ELSE ToString(k)
\* conversations.list as the provider answers it: the page at the cursor, and
\* the cursor of the next page ('' on the last one)
ListPage(per, k) ==
  LET last_ == IF k + per - 1 < Len(Directory) THEN k + per - 1 ELSE Len(Directory)
  IN Response("ok", HttpOk,
              [ok |-> TRUE, channels |-> SubSeq(Directory, k, last_),
               response_metadata |->
                 [next_cursor |-> IF last_ < Len(Directory) THEN ToString(last_ + 1) ELSE ""]])
\* the remote side of one resolveChannel: the page size, and the page (by its
\* first channel) whose request fails, 0 for none
Remote(per, failAt) == [per |-> per, failAt |-> failAt]
Answer(remote, k) ==
  IF remote.failAt = k THEN Response("ok", HttpOk, ErrorBody) ELSE ListPage(remote.per, k)

\* response.channels?.find((ch) => ch.name === channelName): its position, 0 for undefined
FindChannel(body, channelName) ==
  LET channels == IF "channels" \in DOMAIN body THEN body.channels ELSE <<>>
      hits == {i \in 1..Len(channels) : channels[i].name = channelName}
  IN IF hits = {} THEN 0 ELSE CHOOSE i \in hits : \A j \in hits : i <= j

\* response.response_metadata?.next_cursor
NextCursor(body) ==
  IF "response_metadata" \in DOMAIN body
    THEN Prop(body.response_metadata, "next_cursor") ELSE Undefined

ResolveResult(threw, message, value, log) ==
  [threw |-> threw, message |-> message, value |-> value, log |-> log]

\* the do ... while (cursor) loop, from the page starting at channel k
RECURSIVE ResolveLoop(_, _, _, _, _, _)
ResolveLoop(cfg, channelOrName, channelName, remote, k, log) ==
  LET resp == Answer(remote, k)
      r == request(cfg, "conversations.list",
                   [types |-> "public_channel,private_channel", limit |-> "200",
                    cursor |-> CursorAt(k)], resp)
      log_ == log \o CallEntries(r.calls, resp)
      hit == FindChannel(r.value, channelName)
      cursor == NextCursor(r.value)
  IN IF r.threw THEN ResolveResult(TRUE, r.message, <<>>, log_)
     ELSE IF hit /= 0 THEN ResolveResult(FALSE, <<>>, r.value.channels[hit].id, log_)
     ELSE IF Truthy(cursor)
       THEN ResolveLoop(cfg, channelOrName, channelName, remote, k + remote.per, log_)
     ELSE ResolveResult(TRUE, <<"Channel not found", channelOrName>>, <<>>, log_)

\* resolveChannel(channelOrName)
resolveChannel(cfg, channelOrName, remote) ==
  IF LooksLikeChannelId(channelOrName)
    THEN ResolveResult(FALSE, <<>>, channelOrName, <<>>)
    ELSE ResolveLoop(cfg, channelOrName, StripHash(channelOrName), remote, 1, <<>>)

\* what `messages send --recipient-id` is given: a name of the listing, the
\* name behind '#', an id, a name no channel has
ChannelInputs ==
  {Directory[i].name : i \in 1..Len(Directory)}
  \cup {<<"#">> \o Directory[i].name : i \in 1..Len(Directory)}
  \cup {Directory[i].id : i \in 1..Len(Directory)}
  \cup {<<"x", "-", "y">>, <<"C", "9", "9">>}

ResolveChannel ==
  /\ Idle
  /\ \E channelOrName \in ChannelInputs, per \in 1..MaxPerPage,
        failAt \in {0, 1} :
       LET r == resolveChannel(config, channelOrName, Remote(per, failAt))
       IN inv' = [op |-> "resolveChannel", log |-> r.log, threw |-> r.threw,
                  message |-> r.message, arg |-> channelOrName, value |-> r.value,
                  failAt |-> failAt, per |-> per]
  /\ up' = IdleUpload
  /\ UNCHANGED <<config, storeVars, curlVars, batchVars, fsVars, raceVars, toolVars>>

ClientInit ==
  /\ InitStore /\ InitCurl /\ InitBatch /\ InitFs /\ InitRace /\ InitTools
  /\ config \in ClientConfigs
  /\ inv = NoInvocation
  /\ up = IdleUpload

ClientNext ==
  \/ Request
  \/ CreateDraft
  \/ DownloadFile
  \/ FetchFileContent
  \/ UploadFiles
  \/ UploadRead
  \/ UploadPresign
  \/ UploadPost
  \/ UploadComplete
  \/ ResolveChannel

ClientSpec == ClientInit /\ [][ClientNext]_vars

(***************************************************************************)
(* Properties of the client (ClientSpec)                                    *)
(***************************************************************************)
\* the network calls of the current invocation, in the order they were made
Calls == SelectSeq(inv.log, LAMBDA e : e.kind = "call")
\* the API method a call addresses ({origin}/api/{method})
Method(c) == IF Len(c.url) = 3 THEN c.url[3] ELSE "none"
IsBrowserPath(c) == c.transport = "fetch" /\ Len(c.url) = 3 /\ c.url[2] = "/api/"
IsPresign(e) == Method(e.call) = "files.getUploadURLExternal"
IsComplete(e) == Method(e.call) = "files.completeUploadExternal"
IsUploadPost(e) == e.call.httpMethod = "POST" /\ Len(e.call.url) = 1

\* C3: a client bound to a standard credential never sends a Cookie header
\* nor posts to {workspace_url}/api/...; a client bound to a browser
\* credential never makes an SDK call nor sends Authorization: Bearer; this
\* holds for every operation, file download included
C3_DispatchRouting ==
  \A k \in 1..Len(Calls) :
    LET c == Calls[k].call
    IN /\ config.auth_type = "standard" =>
            "Cookie" \notin DOMAIN c.headers /\ ~IsBrowserPath(c)
       /\ config.auth_type = "browser" =>
            c.transport /= "sdk" /\ "Authorization" \notin DOMAIN c.headers

\* C4: a successful uploadFiles of N files makes, in this order, a presign
\* call and a POST to the returned URL for each file, then one complete call
\* listing the N returned file ids in input order with the titles given;
\* there is never more than one complete call
C4_UploadSequence ==
  inv.op = "uploadFiles" =>
    /\ Len(SelectSeq(Calls, IsComplete)) <= 1
    /\ up.pc = "done" =>
          /\ Len(Calls) = 2 * up.n + 1
          /\ \A k \in 1..up.n :
                /\ IsPresign(Calls[2 * k - 1])
                /\ Calls[2 * k - 1].call.form.filename = Filename(PathTable[k])
                /\ IsUploadPost(Calls[2 * k])
                /\ Calls[2 * k].call.url = <<Calls[2 * k - 1].resp.body.upload_url>>
          /\ IsComplete(Calls[2 * up.n + 1])
          /\ Calls[2 * up.n + 1].call.form.files =
                StringifyFiles([k \in 1..up.n |->
                                  IF up.titles[k] = Undefined
                                    THEN [id |-> Calls[2 * k - 1].resp.body.file_id]
                                    ELSE [id |-> Calls[2 * k - 1].resp.body.file_id,
                                          title |-> up.titles[k]]])

\* two files with different ids were uploaded, the first one with a title
C4_Witness ==
  /\ inv.op = "uploadFiles" /\ up.pc = "done"
  /\ up.n >= 2
  /\ up.fileEntries[1].id /= up.fileEntries[2].id
  /\ up.titles[1] /= Undefined /\ up.titles[2] = Undefined

\* C9: createDraft on a standard credential fails at once with 'requires
\* browser authentication' and makes no network call
C9_DraftNeedsBrowser ==
  (inv.op = "createDraft" /\ config.auth_type = "standard") =>
    /\ inv.threw
    /\ inv.message = <<"Draft creation requires browser authentication">>
    /\ inv.log = <<>>

\* createDraft was called on a client bound to a standard credential
C9_Witness ==
  /\ inv.op = "createDraft"
  /\ config.auth_type = "standard"
  /\ inv.threw

(***************************************************************************)
(* CurlSpec: `auth parse-curl` pastes a text and parses it.  The texts are  *)
(* assembled from one rendering of each of the three pieces, as the sample  *)
(* commands of curl-parser.test.ts are.                                     *)
(***************************************************************************)
UrlPiece(kind) ==
  CASE kind = "slack" -> <<"'", "https://", "acme", ".slack.com", "/api/x", "'">>
    [] kind = "enterprise" ->
         <<"'", "https://", "myorg", ".", "enterprise", ".slack.com", "/api/x", "'">>
    [] kind = "bare" -> <<"http://", "acme", ".slack.com", "/api/x">>
    [] kind = "foreign" -> <<"'", "https://", "example", ".com", "/api/x", "'">>
    [] OTHER -> <<>>

CookiePiece(kind) ==
  CASE kind = "b" -> <<"-b", " ", "'", "d=", "xoxd-", "AAA", "-", "111", "'">>
    [] kind = "cookie" ->
         <<"--cookie", " ", "'", "other=value", ";", " ", "d=", "xoxd-", "A", "%2B", "B",
           ";", " ", "lc=1", "'">>
    [] kind = "header" -> <<"-H", " ", "'", "Cookie:", " ", "d=", "xoxd-", "AAA", "'">>
    [] kind = "nod" -> <<"-b", " ", "'", "other=value", "'">>
    [] kind = "malformed" -> <<"-b", " ", "'", "d=", "xoxd-", "A", "%ZZ", "B", "'">>
    [] kind = "escaped" ->
         <<"-b", " ", "'", "d=", "xoxd-", "A", "%25", "B", "%2F", "c", "%3D", "%2b", ";", " ",
           "x=1", "'">>
    [] OTHER -> <<>>

DataPiece(kind) ==
  CASE kind = "raw" ->
         <<"--data-raw", " ", "$", "'", "------Boundary", "\\r\\n",
           "Content-Disposition: form-data; ", "name=", "\"", "token", "\"", "\\r\\n",
           "\\r\\n", "xoxc-", "BBB", "-", "222", "\\r\\n", "------Boundary--", "'">>
    [] kind = "data" ->
         <<"--data", " ", "'", "name=", "\"", "token", "\"", "\\r\\n", "xoxc-", "test", "'">>
    [] kind = "notoken" ->
         <<"--data-raw", " ", "$", "'", "name=", "\"", "other", "\"", "\\r\\n", "value", "'">>
    [] OTHER -> <<>>

\* between two arguments: a blank, or a line continuation
Separator(kind) == IF kind = "line" THEN <<" ", "\\", "\n", " ", " ">> ELSE <<" ">>

\* renderings with the piece, and renderings without it
ValidUrls == {"slack", "enterprise", "bare"}
MissingUrls == {"foreign", "none"}
ValidCookies == {"b", "cookie", "header", "escaped"}
MissingCookies == {"nod", "none"}
\* a cookie token is there, with a percent-escape that does not decode
MalformedCookies == {"malformed"}
ValidDatas == {"raw", "data"}
MissingDatas == {"notoken", "none"}
Separators == {"blank", "line"}

CurlParts ==
  [url : ValidUrls \cup MissingUrls,
   cookie : ValidCookies \cup MissingCookies \cup MalformedCookies,
   data : ValidDatas \cup MissingDatas, sep : Separators]

CurlText(parts) ==
  <<"curl", " ">> \o UrlPiece(parts.url)
  \o Separator(parts.sep) \o <<"-H", " ", "'", "accept: */*", "'">>
  \o Separator(parts.sep) \o CookiePiece(parts.cookie)
  \o Separator(parts.sep) \o DataPiece(parts.data)

\* the text arrives (clipboard, stdin or interactive input)
PasteCurl ==
  /\ \E parts \in CurlParts :
       /\ curlParts' = parts
       /\ curlInput' = CurlText(parts)
  /\ parsed' = NotParsed
  /\ UNCHANGED <<storeVars, clientVars, batchVars, fsVars, raceVars, toolVars>>

\* const parsed = parseCurlCommand(curlInput)
ParseCurl ==
  /\ curlInput /= <<>>
  /\ ~parsed.done
  /\ parsed' = parseCurlCommand(curlInput)
  /\ UNCHANGED <<curlParts, curlInput, storeVars, clientVars, batchVars, fsVars, raceVars, toolVars>>

CurlNext == PasteCurl \/ ParseCurl

CurlSpec == Init /\ [][CurlNext]_vars

\* C10: parseCurlCommand looks for the workspace URL, then the xoxd cookie
\* token, then the xoxc form token, and fails with the tag of the first one
\* that is missing: a text without the URL yields 'workspace' whatever else is
\* missing, and a text that lacks exactly one piece yields that piece's tag
C10_FirstMissingField ==
  parsed.done =>
    /\ curlParts.url \in MissingUrls => parsed = CurlParseError("workspace")
    /\ (curlParts.url \in ValidUrls /\ curlParts.cookie \in MissingCookies) =>
         parsed = CurlParseError("xoxd")
    /\ (curlParts.url \in ValidUrls /\ curlParts.cookie \in ValidCookies
          /\ curlParts.data \in MissingDatas) =>
         parsed = CurlParseError("xoxc")
    /\ (curlParts.url \in ValidUrls /\ curlParts.cookie \in ValidCookies
          /\ curlParts.data \in ValidDatas) =>
         parsed.ok

\* a text without the URL and without the cookie token was parsed
C10_Witness ==
  /\ parsed.done
  /\ curlParts.url = "foreign"
  /\ curlParts.cookie = "none"
  /\ curlParts.data = "raw"
  /\ parsed.field = "workspace"

\* the three tags of CurlParseError.field
CurlFields == {"workspace", "xoxd", "xoxc"}

\* C11: parseCurlCommand either returns a result with all four fields
\* populated or fails with a CurlParseError tagged workspace, xoxd or xoxc; no
\* other failure escapes it, also for a cookie with a malformed percent-escape
C11_OnlyTaggedFailures ==
  parsed.done =>
    \/ /\ parsed.ok
       /\ parsed.workspaceName /= <<>> /\ parsed.workspaceUrl /= <<>>
       /\ parsed.xoxd /= <<>> /\ parsed.xoxc /= <<>>
    \/ /\ ~parsed.ok
       /\ parsed.error = "CurlParseError"
       /\ parsed.field \in CurlFields

\* the id of the channel the listing holds under a name
ChannelIdOf(name) ==
  Directory[CHOOSE i \in 1..Len(Directory) : Directory[i].name = name].id
ChannelNames == {Directory[i].name : i \in 1..Len(Directory)}

\* C12: for every name n of the channel listing, resolveChannel(n) and
\* resolveChannel('#' + n) return the id of the channel named n; only a
\* literal channel id is returned unchanged without a network call
C12_ResolveByName ==
  (inv.op = "resolveChannel" /\ inv.failAt = 0) =>
    /\ \A n \in ChannelNames :
         inv.arg \in {n, <<"#">> \o n} => (~inv.threw /\ inv.value = ChannelIdOf(n))
    /\ (inv.log = <<>> /\ ~inv.threw) => inv.arg \notin ChannelNames

\* C13: in the browser transport a well-formed body with ok:false makes the
\* call fail with the error code of the body's error field, whatever the
\* HTTP status of the response
C13_BrowserOkFalse ==
  (inv.op \in RequestMethods /\ config.auth_type = "browser") =>
    \A k \in 1..Len(Calls) :
      (Calls[k].resp.net = "ok" /\ ~Calls[k].resp.body.ok) =>
        /\ inv.threw
        /\ \E j \in 1..Len(inv.message) : inv.message[j] = Calls[k].resp.body.error

MaxBatch == 2
UserIds == {"U1", "U2"}
ConversationIds == {"C1", "D2"}
SlackUser(id) == [id |-> id]

\* what users.info can answer for a user id
UserInfoResponses(userId) ==
  FailedResponses
  \cup {Response("ok", HttpOk, [ok |-> TRUE, user |-> SlackUser(userId)]),
        Response("ok", HttpOk, [ok |-> TRUE])}
\* what conversations.info can answer for a conversation id
ConversationInfoResponses(id) ==
  FailedResponses
  \cup {Response("ok", HttpOk, [ok |-> TRUE, channel |-> [id |-> id, name |-> "general"]]),
        Response("ok", HttpOk, [ok |-> TRUE])}

\* getUserInfo(userId)
getUserInfo(cfg, userId, resp) == request(cfg, "users.info", [user |-> userId], resp)
\* getConversationInfo(channel)
getConversationInfo(cfg, channel, resp) ==
  request(cfg, "conversations.info", [channel |-> channel], resp)

BatchIdle == batch.pc \in {"idle", "done", "failed"}
BatchFrame == UNCHANGED <<storeVars, clientVars, curlVars, fsVars, raceVars, toolVars>>

\* getUsersInfo(userIds): const users = [], before the loop
GetUsersInfo ==
  /\ BatchIdle
  /\ \E n \in 0..MaxBatch : \E ids \in [1..n -> UserIds] :
       batch' = [NoBatch EXCEPT !.op = "getUsersInfo", !.pc = "loop", !.ids = ids, !.i = 1]
  /\ BatchFrame

\* this.getUserInfo(userId) issues its call; the loop waits on it
UsersSend ==
  /\ batch.op = "getUsersInfo" /\ batch.pc = "loop"
  /\ batch.i <= Len(batch.ids)
  /\ batch.inflight = {}
  /\ batch' = [batch EXCEPT !.inflight = {batch.i}]
  /\ BatchFrame

\* mutant of UsersReceive: a failed fetch aborts the batch
UsersReceive_AbortOnFailure ==
  /\ batch.op = "getUsersInfo" /\ batch.pc = "loop"
  /\ batch.inflight = {batch.i}
  /\ \E resp \in UserInfoResponses(batch.ids[batch.i]) :
       LET r == getUserInfo(config, batch.ids[batch.i], resp)
       IN batch' = [batch EXCEPT
                      !.inflight = {},
                      !.i = batch.i + 1,
                      !.resps = Append(batch.resps, resp),
                      !.pc = IF r.threw THEN "failed" ELSE "loop",
                      !.users = IF ~r.threw /\ r.value.ok /\ "user" \in DOMAIN r.value
                                  THEN Append(batch.users, r.value.user)
                                  ELSE batch.users]
  /\ BatchFrame

\* the awaited call settles: push response.user, or catch and skip
UsersReceive ==
  /\ batch.op = "getUsersInfo" /\ batch.pc = "loop"
  /\ batch.inflight = {batch.i}
  /\ \E resp \in UserInfoResponses(batch.ids[batch.i]) :
       LET r == getUserInfo(config, batch.ids[batch.i], resp)
       IN batch' = [batch EXCEPT
                      !.inflight = {},
                      !.i = batch.i + 1,
                      !.resps = Append(batch.resps, resp),
                      !.users = IF ~r.threw /\ r.value.ok /\ "user" \in DOMAIN r.value
                                  THEN Append(batch.users, r.value.user)
                                  ELSE batch.users]
  /\ BatchFrame

\* return { ok: true, users }
UsersReturn ==
  /\ batch.op = "getUsersInfo" /\ batch.pc = "loop"
  /\ batch.i > Len(batch.ids)
  /\ batch' = [batch EXCEPT !.pc = "done"]
  /\ BatchFrame

\* list-unreads: unreadEntries.map(async (entry) => ...) runs every callback
\* up to its first await, so every getConversationInfo call is issued
ListUnreads ==
  /\ BatchIdle
  /\ \E n \in 0..MaxBatch : \E ids \in [1..n -> ConversationIds] :
       batch' = [NoBatch EXCEPT !.op = "list-unreads", !.pc = "all", !.ids = ids,
                                !.inflight = 1..n,
                                !.resolved = [k \in 1..n |-> Undefined]]
  /\ BatchFrame

\* one of the pending calls settles: info.channel ?? { id }, or { id } in the catch
InfoReceive ==
  /\ batch.op = "list-unreads" /\ batch.pc = "all"
  /\ \E k \in batch.inflight : \E resp \in ConversationInfoResponses(batch.ids[k]) :
       LET r == getConversationInfo(config, batch.ids[k], resp)
       IN batch' = [batch EXCEPT
                      !.inflight = batch.inflight \ {k},
                      !.resolved[k] =
                         IF ~r.threw /\ "channel" \in DOMAIN r.value
                           THEN r.value.channel.id ELSE batch.ids[k]]
  /\ BatchFrame

\* Promise.all resolves when every callback has returned
UnreadsResolved ==
  /\ batch.op = "list-unreads" /\ batch.pc = "all"
  /\ batch.inflight = {}
  /\ batch' = [batch EXCEPT !.pc = "done"]
  /\ BatchFrame

BatchInit ==
  /\ InitStore /\ InitCurl /\ InitFs /\ InitRace /\ InitTools /\ InitBatch
  /\ config \in ClientConfigs
  /\ inv = NoInvocation
  /\ up = IdleUpload

BatchNext ==
  \/ GetUsersInfo
  \/ UsersSend
  \/ UsersReceive
  \/ UsersReturn
  \/ ListUnreads
  \/ InfoReceive
  \/ UnreadsResolved

BatchSpec == BatchInit /\ [][BatchNext]_vars

\* the users whose fetch succeeded with a profile, in the order fetched
RECURSIVE FetchedUsers(_)
FetchedUsers(resps) ==
  IF resps = <<>> THEN <<>>
  ELSE LET resp == Head(resps)
       IN (IF resp \in FailedResponses \/ "user" \notin DOMAIN resp.body
             THEN <<>> ELSE <<resp.body.user>>)
          \o FetchedUsers(Tail(resps))

\* C15: getUsersInfo never fails; it fetches every id and returns, in input
\* order, exactly the profiles of the ids whose users.info succeeded with a
\* user, whatever the pattern of failures
C15_UsersInfoNeverFails ==
  batch.op = "getUsersInfo" =>
    /\ batch.pc /= "failed"
    /\ batch.users = FetchedUsers(batch.resps)
    /\ batch.pc = "done" =>
         /\ Len(batch.resps) = Len(batch.ids)
         /\ \A k \in 1..Len(batch.users) : \E j \in 1..Len(batch.ids) :
              batch.users[k].id = batch.ids[j]

\* a batch of two returned after its first fetch failed and its second succeeded
C15_Witness ==
  /\ batch.op = "getUsersInfo" /\ batch.pc = "done"
  /\ Len(batch.ids) = 2
  /\ batch.resps[1] \in FailedResponses
  /\ batch.users = <<SlackUser(batch.ids[2])>>

\* C16: the remote calls of a batch are issued one after another, so at most
\* one call of a batch is in flight at any time
C16_OneInFlight == Cardinality(batch.inflight) <= 1

(***************************************************************************)
(* PermSpec: the store operations from any state of the file system: the    *)
(* directory and the file may be there already, created by someone else.    *)
(***************************************************************************)
\* owner-only and group/world-accessible entries found at start
FoundDirs == {NoEntry, Entry(<<7, 0, 0>>), Entry(<<7, 5, 5>>)}
FoundFiles == {NoEntry, Entry(<<6, 0, 0>>), Entry(<<6, 4, 4>>)}
FoundContents == {EmptyData, Stringify([workspaces |-> <<StandardAuthConfig("T1", "acme", "xoxb-1")>>,
                                        default_workspace |-> "T1"])}

PermInit ==
  /\ InitClient /\ InitCurl /\ InitBatch /\ InitRace /\ InitTools
  /\ fs \in {f \in [dir : FoundDirs, file : FoundFiles] : f.file.exists => f.dir.exists}
  /\ file \in {f \in [exists : BOOLEAN, content : FoundContents] :
                 /\ f.exists = fs.file.exists
                 /\ ~f.exists => f = NoFile}
  /\ last = Last("none", Undefined, NoFile, NoResponse, Outcome(NoFile, <<>>, FALSE, Null))

PermSpec == PermInit /\ [][Next]_vars

\* no permission for group or others
OwnerOnly(mode) == mode[2] = 0 /\ mode[3] = 0

\* C17: whenever the credentials file exists after a save, it grants nothing
\* to group or others and its directory is owner-only, also when the file or
\* the directory existed before the save
C17_OwnerOnly ==
  (last.saved /\ fs.file.exists) =>
    /\ OwnerOnly(fs.file.mode)
    /\ OwnerOnly(fs.dir.mode)

(***************************************************************************)
(* CorruptSpec: the store operations on a credentials file that holds       *)
(* something else than a store document.                                    *)
(***************************************************************************)
\* valid JSON that is not a store document: no workspaces mapping
NotStoreDocs == {[default_workspace |-> "T1"], [version |-> "1"]}
CorruptFiles ==
  {NoFile} \cup {[exists |-> TRUE, content |-> c] : c \in {NotJson} \cup NotStoreDocs}

CorruptInit ==
  /\ InitClient /\ InitCurl /\ InitBatch /\ InitRace /\ InitTools
  /\ file \in CorruptFiles
  /\ fs = [dir |-> Entry(DirMode), file |-> IF file.exists THEN Entry(FileMode) ELSE NoEntry]
  /\ last = Last("none", Undefined, NoFile, NoResponse, Outcome(NoFile, <<>>, FALSE, Null))

CorruptNext ==
  \/ AddWorkspace
  \/ RemoveWorkspace
  \/ GetWorkspace
  \/ GetAllWorkspaces

CorruptSpec == CorruptInit /\ [][CorruptNext]_vars

\* C18: whatever the credentials file holds (nothing, a text that is not
\* JSON, JSON without a workspaces mapping), loadWorkspaces yields an empty
\* store and the operation that follows ends as it does on an empty store:
\* add stores the credential, resolve finds nothing, list is empty, remove
\* fails with 'not found'; none crashes
C18_CorruptDegrades ==
  (last.op /= "none" /\ last.before \in CorruptFiles) =>
    /\ last.error /= TypeError
    /\ last.op = "addWorkspace" =>
         (last.saved /\ ObjectKeys(Workspaces) = <<last.arg>>)
    /\ last.op = "removeWorkspace" =>
         last.error = <<"Workspace ", last.arg, " not found">>
    /\ last.op = "getWorkspace" => (last.error = <<>> /\ last.ret = Null)
    /\ last.op = "getAllWorkspaces" => (last.error = <<>> /\ last.ret = <<>>)

(***************************************************************************)
(* RaceSpec: CLI processes that each run one store operation on the same    *)
(* file.  An operation awaits loadWorkspaces, changes the object it got and *)
(* awaits saveWorkspaces; nothing locks the file between the two.           *)
(***************************************************************************)
RaceConfig(id) == StandardAuthConfig(id, "acme", "xoxb-1")
RaceFile(ids, def) ==
  SaveWorkspaces([workspaces |-> [i \in 1..Len(ids) |-> RaceConfig(ids[i])],
                  default_workspace |-> def])
\* the file when the processes start
RaceFiles == {NoFile, RaceFile(<<"T1">>, "T1"), RaceFile(<<"T1", "T2">>, "T2")}
RaceOps == {"addWorkspace", "removeWorkspace", "setDefaultWorkspace"}

\* the operation of a process applied to the file it loaded
Applied(op, id, snap) ==
  CASE op = "addWorkspace" -> addWorkspace(snap, RaceConfig(id))
    [] op = "removeWorkspace" -> removeWorkspace(snap, id)
    [] OTHER -> setDefaultWorkspace(snap, id)

\* loads and saves done so far, by all processes
RECURSIVE Events(_)
Events(n) ==
  IF n = 0 THEN 0
  ELSE Events(n - 1) + (IF proc[n].loadedAt > 0 THEN 1 ELSE 0)
                     + (IF proc[n].savedAt > 0 THEN 1 ELSE 0)
Clock == Events(NumProcs)

RaceFrame == UNCHANGED <<last, clientVars, curlVars, batchVars, toolVars>>

\* const data = await loadWorkspaces(), then the checks and changes up to
\* the await of saveWorkspaces; a failed check throws
RaceLoad(p) ==
  /\ proc[p].pc = "idle"
  /\ \E op \in RaceOps, id \in WorkspaceIds :
       LET out == Applied(op, id, file)
       IN proc' = [proc EXCEPT ![p] =
                     [NoProc EXCEPT !.pc = IF out.saved THEN "loaded" ELSE "done",
                                    !.op = op, !.id = id, !.snap = file,
                                    !.loadedAt = Clock + 1, !.error = out.error]]
  /\ \E umask \in Umasks : fs' = ensureConfigDir(fs, umask)
  /\ UNCHANGED file
  /\ RaceFrame

\* mutant of RaceSave: the file is read again and the change is applied to
\* what it holds now
RaceSave_Reload(p) ==
  /\ proc[p].pc = "loaded"
  /\ LET out == Applied(proc[p].op, proc[p].id, file)
     IN /\ file' = out.file
        /\ proc' = [proc EXCEPT ![p].pc = "done", ![p].written = out.file,
                                ![p].savedAt = Clock + 1]
  /\ \E umask \in Umasks : fs' = writeFile(ensureConfigDir(fs, umask), umask)
  /\ RaceFrame

\* await saveWorkspaces(data): the object loaded earlier, as changed, replaces
\* the file
RaceSave(p) ==
  /\ proc[p].pc = "loaded"
  /\ LET out == Applied(proc[p].op, proc[p].id, proc[p].snap)
     IN /\ file' = out.file
        /\ proc' = [proc EXCEPT ![p].pc = "done", ![p].written = out.file,
                                ![p].savedAt = Clock + 1]
  /\ \E umask \in Umasks : fs' = writeFile(ensureConfigDir(fs, umask), umask)
  /\ RaceFrame

RaceInit ==
  /\ InitClient /\ InitCurl /\ InitBatch /\ InitRace /\ InitTools
  /\ file \in RaceFiles
  /\ fs = [dir |-> Entry(DirMode), file |-> IF file.exists THEN Entry(FileMode) ELSE NoEntry]
  /\ last = Last("none", Undefined, NoFile, NoResponse, Outcome(NoFile, <<>>, FALSE, Null))

RaceNext == \E p \in 1..NumProcs : RaceLoad(p) \/ RaceSave(p)

RaceSpec == RaceInit /\ [][RaceNext]_vars

\* a document is a whole store: its default is one of its keys, or unset
\* when it holds no workspace
SelfConsistent(data) ==
  /\ ~LacksWorkspaces(data)
  /\ IF Len(data.workspaces) = 0
       THEN Prop(data, "default_workspace") = Undefined
       ELSE HasKey(data.workspaces, Prop(data, "default_workspace"))

Saved(p) == proc[p].savedAt > 0
\* q saved last of all
LastWriter(q) == Saved(q) /\ \A p \in 1..NumProcs : proc[p].savedAt <= proc[q].savedAt
\* p and q both loaded before either saved, and p saved before q
Overlapped(p, q) ==
  /\ Saved(p) /\ Saved(q)
  /\ proc[p].savedAt < proc[q].savedAt
  /\ proc[q].loadedAt < proc[p].savedAt

IsApiCall(c) == Len(c.url) = 3 /\ c.url[2] = "/api/"

\* C20: every operation that calls the workspace API, draft creation
\* included, issues the call through request(method, params); none builds
\* its own HTTP call to {workspace_url}/api/<method>
C20_AllViaRequest ==
  \A k \in 1..Len(Calls) :
    IsApiCall(Calls[k].call) =>
      Calls[k].call.issuer \in {"standardRequest", "browserRequest"}

\* C21: authenticateBrowser without a display name persists the probe's team
\* name when the response carries one, and otherwise the leftmost hostname
\* label of the workspace URL
C21_BrowserNameFallback ==
  (last.op = "authenticateBrowser" /\ last.arg = Undefined /\ last.saved) =>
    LET body == last.probe.body
        persisted == Workspaces[KeyIndex(Workspaces, body.team_id)]
    IN /\ HasKey(Workspaces, body.team_id)
       /\ persisted.workspace_name =
            IF "team" \in DOMAIN body THEN body.team ELSE DefaultName(persisted.workspace_url)

(***************************************************************************)
(* QuoteSpec: one logical request, rendered with each argument in single    *)
(* quotes, in double quotes or in $'...' quoting, pasted and parsed.        *)
(***************************************************************************)
QuoteStyles == {"single", "double", "ansi"}
OpenQuote(style) ==
  CASE style = "double" -> <<"\"">> [] style = "ansi" -> <<"$", "'">> [] OTHER -> <<"'">>
CloseQuote(style) == IF style = "double" THEN <<"\"">> ELSE <<"'">>
\* a double quote inside the argument: escaped inside double quotes
InnerQuote(style) == IF style = "double" THEN <<"\\", "\"">> ELSE <<"\"">>
QuotedArg(style, body) == OpenQuote(style) \o body \o CloseQuote(style)

CookieFlags == {"-b", "--cookie", "-H"}
QuotedUrl(style) == QuotedArg(style, <<"https://", "acme", ".slack.com", "/api/x">>)
QuotedCookie(flag, style) ==
  <<flag, " ">>
  \o QuotedArg(style, (IF flag = "-H" THEN <<"Cookie:", " ">> ELSE <<>>)
                       \o <<"d=", "xoxd-", "AAA">>)
QuotedData(style) ==
  <<"--data-raw", " ">>
  \o QuotedArg(style, <<"name=">> \o InnerQuote(style) \o <<"token">> \o InnerQuote(style)
                       \o <<"\\r\\n", "xoxc-", "test">>)

QuotedParts ==
  [url : QuoteStyles, cookie : QuoteStyles, data : QuoteStyles, sep : Separators,
   flag : CookieFlags]
QuotedText(parts) ==
  <<"curl", " ">> \o QuotedUrl(parts.url)
  \o Separator(parts.sep) \o QuotedCookie(parts.flag, parts.cookie)
  \o Separator(parts.sep) \o QuotedData(parts.data)

PasteQuoted ==
  /\ \E parts \in QuotedParts :
       /\ curlParts' = parts
       /\ curlInput' = QuotedText(parts)
  /\ parsed' = NotParsed
  /\ UNCHANGED <<storeVars, clientVars, batchVars, fsVars, raceVars, toolVars>>

QuoteNext == PasteQuoted \/ ParseCurl

QuoteSpec == Init /\ [][QuoteNext]_vars

\* C22: parseCurlCommand returns the same workspaceName, workspaceUrl, xoxd
\* and xoxc for one logical request whatever quoting its URL, its cookie
\* value and its data value are written in
C22_QuoteInvariance ==
  parsed.done =>
    parsed = ParsedCurlResult(<<"acme">>, <<"https://", "acme", ".slack.com">>,
                              <<"xoxd-", "AAA">>, <<"xoxc-", "test">>)

\* the cookie renderings whose token carries percent-escapes, and the token
\* each of them stands for
EscapedCookies == {"cookie", "escaped"}
EscapedToken(kind) ==
  IF kind = "escaped" THEN <<"xoxd-", "A", "%", "B", "/", "c", "=", "+">>
  ELSE <<"xoxd-", "A", "+", "B">>

\* the Cookie header the browser transport builds for a parsed credential
CookieHeaderOf(result) ==
  BrowserCall(BrowserAuthConfig("T1", result.workspaceName, result.workspaceUrl,
                                result.xoxd, result.xoxc),
              "auth.test", NoParams).headers.Cookie

\* C23: a cookie token with percent-escapes is returned percent-decoded, and
\* the Cookie header the browser transport builds from it is d= followed by
\* an encoding that decodes back to exactly that token
C23_CookieRoundTrip ==
  (parsed.done /\ parsed.ok /\ curlParts.cookie \in EscapedCookies) =>
    LET header == CookieHeaderOf(parsed)
    IN /\ parsed.xoxd = EscapedToken(curlParts.cookie)
       /\ Head(header) = "d="
       /\ ~Malformed(Tail(header))
       /\ DecodeURIComponent(Tail(header)) = parsed.xoxd

\* a token whose escapes include an escaped percent sign was parsed
C23_Witness ==
  /\ parsed.done /\ parsed.ok
  /\ curlParts.cookie = "escaped"
  /\ "%" \in {parsed.xoxd[i] : i \in 1..Len(parsed.xoxd)}
  /\ "%25" \in {CookieHeaderOf(parsed)[i] : i \in 1..Len(CookieHeaderOf(parsed))}

(***************************************************************************)
(* LooksSpec: looksLikeCurlCommand applied to short texts.  A text is a     *)
(* sequence of lexemes: the word curl, whitespace characters, other words.  *)
(***************************************************************************)
MaxText == 3
TextLex == {"curl", " ", "\t", "\n", "https://example.com", "wget"}
Texts == UNION {[1..n -> TextLex] : n \in 0..MaxText}

\* String.prototype.trim(): whitespace and line terminators off both ends
Trim(t) ==
  LET kept == {k \in 1..Len(t) : t[k] \notin WsLex}
  IN IF kept = {} THEN <<>> ELSE SubSeq(t, FirstAt(kept), LastAt(kept))

\* trimmed.startsWith(prefix)
StartsWith(t, prefix) ==
  Len(t) >= Len(prefix) /\ SubSeq(t, 1, Len(prefix)) = prefix

looksLikeCurlCommand(input) ==
  LET trimmed == Trim(input)
  IN StartsWith(trimmed, <<"curl", " ">>) \/ StartsWith(trimmed, <<"curl", "\t">>)

TextParts == [NoParts EXCEPT !.sep = "text"]
Looked(answer) == [done |-> TRUE, ok |-> answer, error |-> "none", field |-> "none"]

PasteText ==
  /\ \E t \in Texts : curlInput' = t
  /\ curlParts' = TextParts
  /\ parsed' = NotParsed
  /\ UNCHANGED <<storeVars, clientVars, batchVars, fsVars, raceVars, toolVars>>

LooksLikeCurl ==
  /\ curlParts = TextParts
  /\ ~parsed.done
  /\ parsed' = Looked(looksLikeCurlCommand(curlInput))
  /\ UNCHANGED <<curlParts, curlInput, storeVars, clientVars, batchVars, fsVars, raceVars, toolVars>>

LooksNext == PasteText \/ LooksLikeCurl

LooksSpec == Init /\ [][LooksNext]_vars

\* the text without its leading whitespace and newlines
TrimStart(t) == SubSeq(t, RunIn(t, 1, WsLex), Len(t))

\* C24: looksLikeCurlCommand(s) is true exactly when s, without its leading
\* whitespace and newlines, starts with the word curl followed by a space, a
\* tab or a newline, and false for every other text
C24_LooksLikeCurl ==
  parsed.done =>
    LET t == TrimStart(curlInput)
    IN parsed.ok = (Len(t) >= 2 /\ t[1] = "curl" /\ t[2] \in {" ", "\t", "\n"})

\* the progress callbacks of the running invocation, in order
Progress == SelectSeq(inv.log, LAMBDA e : e.kind = "progress")
UploadingStep(k, n) ==
  ProgressEntry(<<"Uploading file ", ToString(k), "/", ToString(n), Filename(PathTable[k])>>)
FinalizingStep == ProgressEntry(<<"Finalizing upload...">>)

\* C25: an uploadFiles of N files with a progress callback in which no step
\* fails calls the callback exactly N+1 times: for file i (in input order)
\* before that file's presign call and upload POST, and with 'Finalizing
\* upload...' after the last POST and before the complete call
C25_ProgressCalls ==
  (inv.op = "uploadFiles" /\ up.pc = "done" /\ up.onProgress) =>
    /\ Len(Progress) = up.n + 1
    /\ Len(inv.log) = 3 * up.n + 2
    /\ \A k \in 1..up.n :
          /\ inv.log[3 * k - 2] = UploadingStep(k, up.n)
          /\ inv.log[3 * k - 1].kind = "call" /\ IsPresign(inv.log[3 * k - 1])
          /\ inv.log[3 * k].kind = "call" /\ IsUploadPost(inv.log[3 * k])
    /\ inv.log[3 * up.n + 1] = FinalizingStep
    /\ inv.log[3 * up.n + 2].kind = "call" /\ IsComplete(inv.log[3 * up.n + 2])

\* two files were uploaded with a progress callback, which was called thrice
C25_Witness ==
  /\ inv.op = "uploadFiles" /\ up.pc = "done" /\ up.onProgress
  /\ up.n = 2
  /\ Progress = <<UploadingStep(1, 2), UploadingStep(2, 2), FinalizingStep>>

\* uploadFiles failed inside its loop, at a presign call or an upload POST
FailedInLoop ==
  /\ inv.op = "uploadFiles" /\ up.pc = "failed"
  /\ up.i <= up.n
  /\ inv.message /= <<"ENOENT">>

\* C26: when the presign call or the upload POST of file k fails, uploadFiles
\* fails with that error; no files.completeUploadExternal call and no call for
\* a later file is made; files 1..k-1 stay uploaded and nothing else is called
C26_FailedUpload ==
  FailedInLoop =>
    LET k == up.i
        e == Calls[Len(Calls)]
        filename == Filename(PathTable[k])
    IN /\ Len(Calls) \in {2 * k - 1, 2 * k}
       /\ inv.threw
       /\ Len(Calls) = 2 * k - 1 =>
             /\ IsPresign(e)
             /\ inv.message = getUploadUrl(config, filename, ByteLength, e.resp).message
       /\ Len(Calls) = 2 * k =>
             /\ IsUploadPost(e)
             /\ inv.message =
                   IF e.resp.net = "error" THEN <<"fetch failed">>
                   ELSE <<"File upload failed: HTTP ", ToString(e.resp.status)>>
       /\ inv.message /= <<>>
       /\ SelectSeq(Calls, IsComplete) = <<>>
       /\ \A j \in 1..Len(Calls) :
             IF j % 2 = 1
               THEN /\ IsPresign(Calls[j])
                    /\ Calls[j].call.form.filename = Filename(PathTable[(j + 1) \div 2])
               ELSE IsUploadPost(Calls[j])
       /\ \A j \in 1..(k - 1) : Calls[2 * j].resp = OkResponse
       /\ Len(up.fileEntries) = k - 1

\* the upload POST of the second of two files failed after the first file
\* had been uploaded
C26_Witness ==
  /\ FailedInLoop
  /\ up.n = 2 /\ up.i = 2
  /\ Len(Calls) = 4
  /\ Calls[2].resp = OkResponse
  /\ Calls[4].resp.status = HttpServerError

(***************************************************************************)
(* ClipSpec: readClipboard.  tryCommand spawns a command and settles its     *)
(* promise from the handlers of the child's 'error' and 'close' events and   *)
(* of a timer; the handlers run one at a time, in the order the events       *)
(* occur.  Strings are sequences of segments; stdout and stderr are the      *)
(* chunks received so far.                                                   *)
(*   clip.settled   the values resolve() was called with, in order           *)
(*   clip.events    the 'error', 'close' and timer events, in order, each    *)
(*                  with the output received before it                       *)
(***************************************************************************)
MaxChunks == 1
Platforms == {"darwin", "win32", "linux", "freebsd"}
NullCode == -1
ExitCodes == {0, 1, NullCode}
SpawnErrors ==
  {[code |-> "ENOENT", message |-> <<"spawn ENOENT">>],
   [code |-> "EACCES", message |-> <<"spawn EACCES">>]}

\* ClipboardResult
ClipSuccess(content) == [success |-> TRUE, content |-> content]
ClipFailure(error) == [success |-> FALSE, error |-> error]

\* `${code}`
CodeString(code) == IF code = NullCode THEN "null" ELSE ToString(code)

\* the command readClipboard starts with on a platform
FirstCommand(platform) ==
  CASE platform = "darwin" -> "pbpaste"
    [] platform = "win32" -> "powershell"
    [] OTHER -> "xclip"

LinuxHint ==
  <<"Clipboard access requires xclip or xsel on Linux.", "\n",
    "Install with: sudo apt install xclip (Debian/Ubuntu)", "\n",
    "          or: sudo dnf install xclip (Fedora)">>

\* tryCommand up to the end of the promise executor: the child is spawned,
\* the timer is armed, the handlers are registered
tryCommand(platform, command) ==
  [NoClip EXCEPT !.pc = "awaiting", !.platform = platform, !.command = command,
                 !.timer = "armed", !.child = "running"]

\* spawn() throws inside the executor: the promise is rejected
SpawnThrew(platform, command) ==
  [NoClip EXCEPT !.pc = "awaiting", !.platform = platform, !.command = command,
                 !.rejected = TRUE]

ClipFrame == UNCHANGED <<storeVars, clientVars, curlVars, batchVars, fsVars, raceVars, upd>>

\* readClipboard(): the switch on process.platform
ReadClipboard ==
  /\ clip.pc \in {"idle", "returned"}
  /\ \E platform \in Platforms :
       IF platform \in {"darwin", "win32", "linux"}
         THEN \/ clip' = tryCommand(platform, FirstCommand(platform))
              \/ clip' = SpawnThrew(platform, FirstCommand(platform))
         ELSE clip' = [NoClip EXCEPT !.pc = "returned", !.platform = platform,
                                     !.returned =
                                       <<ClipFailure(<<"Unsupported platform: ", platform>>)>>]
  /\ ClipFrame

Event(name, code, err) ==
  [name |-> name, code |-> code, err |-> err, stdout |-> clip.stdout, stderr |-> clip.stderr]
NoError == [code |-> "none", message |-> <<>>]

\* proc.stdout.on('data') / proc.stderr.on('data')
ClipData ==
  /\ clip.child = "running"
  /\ \/ /\ Len(clip.stdout) < MaxChunks
        /\ clip' = [clip EXCEPT !.stdout = Append(@, "xoxd-1")]
     \/ /\ Len(clip.stderr) < MaxChunks
        /\ clip' = [clip EXCEPT !.stderr = Append(@, "Error: Can't open display")]
  /\ ClipFrame

\* the setTimeout callback, 5000 ms after the spawn unless cleared
ClipTimeout ==
  /\ clip.timer = "armed"
  /\ clip' =
       IF ~clip.resolved
         THEN [clip EXCEPT !.resolved = TRUE, !.timer = "fired",
                           !.killed = TRUE,
                           !.settled = Append(@, ClipFailure(<<"Clipboard read timed out">>)),
                           !.events = Append(@, Event("timeout", NullCode, NoError))]
         ELSE [clip EXCEPT !.timer = "fired",
                           !.events = Append(@, Event("timeout", NullCode, NoError))]
  /\ ClipFrame

\* proc.on('error')
ClipError ==
  /\ clip.child /= "none"
  /\ \A k \in 1..Len(clip.events) : clip.events[k].name /= "error"
  /\ \E err \in SpawnErrors :
       clip' =
         IF ~clip.resolved
           THEN [clip EXCEPT !.resolved = TRUE,
                             !.timer = IF @ = "armed" THEN "cleared" ELSE @,
                             !.settled =
                               Append(@, IF err.code = "ENOENT"
                                           THEN ClipFailure(<<"Command not found: ",
                                                              clip.command>>)
                                           ELSE ClipFailure(err.message)),
                             !.events = Append(@, Event("error", NullCode, err))]
           ELSE [clip EXCEPT !.events = Append(@, Event("error", NullCode, err))]
  /\ ClipFrame

\* mutant of ClipClose: the handler does not look at the resolved flag
ClipClose_Unguarded ==
  /\ clip.child = "running"
  /\ \E code \in ExitCodes :
       clip' =
         [clip EXCEPT !.child = "closed", !.resolved = TRUE,
                      !.timer = IF @ = "armed" THEN "cleared" ELSE @,
                      !.settled =
                        Append(@, IF code = 0
                                    THEN ClipSuccess(clip.stdout)
                                    ELSE ClipFailure(
                                           IF clip.stderr /= <<>> THEN clip.stderr
                                           ELSE <<"Command exited with code ",
                                                  CodeString(code)>>)),
                      !.events = Append(@, Event("close", code, NoError))]
  /\ ClipFrame

\* proc.on('close')
ClipClose ==
  /\ clip.child = "running"
  /\ \E code \in ExitCodes :
       clip' =
         IF ~clip.resolved
           THEN [clip EXCEPT !.child = "closed", !.resolved = TRUE,
                             !.timer = IF @ = "armed" THEN "cleared" ELSE @,
                             !.settled =
                               Append(@, IF code = 0
                                           THEN ClipSuccess(clip.stdout)
                                           ELSE ClipFailure(
                                                  IF clip.stderr /= <<>> THEN clip.stderr
                                                  ELSE <<"Command exited with code ",
                                                         CodeString(code)>>)),
                             !.events = Append(@, Event("close", code, NoError))]
           ELSE [clip EXCEPT !.child = "closed",
                             !.events = Append(@, Event("close", code, NoError))]
  /\ ClipFrame

\* readClipboard after `await tryCommand(...)`: xsel after a failed xclip, the
\* hint after a failed xsel, the result otherwise; a rejection is caught
ClipAwait ==
  /\ clip.pc = "awaiting"
  /\ \/ /\ clip.rejected
        /\ clip' = [clip EXCEPT !.pc = "returned",
                                !.returned = <<ClipFailure(<<"spawn EPERM">>)>>]
     \/ /\ clip.settled /= <<>>
        /\ LET result == clip.settled[1]
           IN IF clip.platform = "linux" /\ ~result.success
                THEN IF clip.command = "xclip"
                       THEN \/ clip' = tryCommand("linux", "xsel")
                            \/ clip' = SpawnThrew("linux", "xsel")
                       ELSE clip' = [clip EXCEPT !.pc = "returned",
                                                 !.returned = <<ClipFailure(LinuxHint)>>]
                ELSE clip' = [clip EXCEPT !.pc = "returned", !.returned = <<result>>]
  /\ ClipFrame

ClipNext == ReadClipboard \/ ClipData \/ ClipTimeout \/ ClipError \/ ClipClose \/ ClipAwait

ClipSpec == Init /\ [][ClipNext]_vars

\* what the handler of an event resolves the promise with when it is the
\* first one to run
FirstOutcome(e) ==
  CASE e.name = "timeout" -> ClipFailure(<<"Clipboard read timed out">>)
    [] e.name = "error" ->
         IF e.err.code = "ENOENT" THEN ClipFailure(<<"Command not found: ", clip.command>>)
         ELSE ClipFailure(e.err.message)
    [] OTHER ->
         IF e.code = 0 THEN ClipSuccess(e.stdout)
         ELSE ClipFailure(IF e.stderr /= <<>> THEN e.stderr
                          ELSE <<"Command exited with code ", CodeString(e.code)>>)

\* C27: whatever the order of the spawned command's 'error' event, 'close'
\* event and timeout, the promise of tryCommand is fulfilled exactly once, by
\* the first of them, and never rejected; it is a success with the content
\* only when that first event is a close with exit code 0, and a failure with
\* an error string otherwise; after a timeout the child is killed and later
\* events change nothing; readClipboard returns a ClipboardResult
C27_SettledOnce ==
  /\ clip.child /= "none" =>
        /\ ~clip.rejected
        /\ clip.settled = IF clip.events = <<>> THEN <<>> ELSE <<FirstOutcome(clip.events[1])>>
        /\ clip.resolved = (clip.events /= <<>>)
        /\ \A k \in 1..Len(clip.settled) :
              IF clip.settled[k].success
                THEN /\ clip.events[1].name = "close" /\ clip.events[1].code = 0
                     /\ DOMAIN clip.settled[k] = {"success", "content"}
                ELSE /\ DOMAIN clip.settled[k] = {"success", "error"}
                     /\ clip.settled[k].error /= <<>>
        /\ (clip.events /= <<>> /\ clip.events[1].name = "timeout") => clip.killed
  /\ clip.pc = "returned" =>
        /\ Len(clip.returned) = 1
        /\ "success" \in DOMAIN clip.returned[1]

\* the timer fired first; the killed child's 'error' and 'close' events came
\* after it and the promise still holds the timeout
C27_Witness ==
  /\ Len(clip.events) = 3
  /\ clip.events[1].name = "timeout"
  /\ clip.events[3].name = "close" /\ clip.events[3].code = 0
  /\ clip.settled = <<ClipFailure(<<"Clipboard read timed out">>)>>
  /\ clip.pc = "returned"

\* a literal channel identifier: C, G or D followed by capitals and digits
LiteralChannelId(s) ==
  /\ Len(s) >= 2
  /\ s[1] \in {"C", "G", "D"}
  /\ \A i \in 2..Len(s) : s[i] \in UpperLetters \cup Digits

\* a page of the listing answered without an error that holds the name
PageHolds(e, name) ==
  /\ e.resp.body.ok
  /\ \E i \in 1..Len(e.resp.body.channels) : e.resp.body.channels[i].name = name
PageCursor(e) == e.resp.body.response_metadata.next_cursor

\* C28: for an input that is not a literal identifier resolveChannel requests
\* the conversations.list pages one at a time, each with the next_cursor of
\* the page before; it returns the id found on the first page that holds the
\* name (leading # stripped) and requests no later page; it raises 'Channel
\* not found' exactly when a page without a next cursor held no match; it makes
\* at most as many list calls as the listing has pages
C28_Paging ==
  (inv.op = "resolveChannel" /\ ~LiteralChannelId(inv.arg)) =>
    LET name == StripHash(inv.arg)
        n == Len(Calls)
        pages == (Len(Directory) + inv.per - 1) \div inv.per
    IN /\ n >= 1 /\ n <= pages
       /\ \A j \in 1..n : Method(Calls[j].call) = "conversations.list"
       /\ \A j \in 1..(n - 1) :
             /\ ~PageHolds(Calls[j], name)
             /\ Truthy(PageCursor(Calls[j]))
             /\ Calls[j + 1].call.form.cursor = PageCursor(Calls[j])
       /\ IF ~Calls[n].resp.body.ok
            THEN inv.threw /\ Head(inv.message) /= "Channel not found"
          ELSE IF PageHolds(Calls[n], name)
            THEN ~inv.threw /\ inv.value = ChannelIdOf(name)
          ELSE /\ ~Truthy(PageCursor(Calls[n]))
               /\ inv.threw
               /\ inv.message = <<"Channel not found", inv.arg>>

\* the same, for the inputs the test of resolveChannel does not take for an
\* identifier
PagingBehindTest ==
  (inv.op = "resolveChannel" /\ ~LooksLikeChannelId(inv.arg)) =>
    LET name == StripHash(inv.arg)
        n == Len(Calls)
        pages == (Len(Directory) + inv.per - 1) \div inv.per
    IN /\ n >= 1 /\ n <= pages
       /\ \A j \in 1..(n - 1) :
             /\ ~PageHolds(Calls[j], name)
             /\ Calls[j + 1].call.form.cursor = PageCursor(Calls[j])
       /\ (inv.threw /\ Head(inv.message) = "Channel not found") <=>
             (Calls[n].resp.body.ok /\ ~PageHolds(Calls[n], name)
                /\ ~Truthy(PageCursor(Calls[n])))

\* C30: the form body of the browser transport holds token=<xoxc> and exactly
\* the parameters the caller gave a value: the cursor that resolveChannel
\* leaves undefined for the first conversations.list page is not transmitted,
\* and no parameter takes the place of the token
C30_BrowserFormBody ==
  \A k \in 1..Len(Calls) :
    Calls[k].call.issuer = "browserRequest" =>
      LET form == Calls[k].call.form
      IN /\ form.token = config.xoxc_token
         /\ \A name \in DOMAIN form : form[name] /= "undefined"
         /\ (inv.op = "resolveChannel" /\ k = 1) => DOMAIN form = {"token", "types", "limit"}

(***************************************************************************)
(* UpdateSpec: performUpdate.  A version is the sequence of the numbers of   *)
(* its dotted parts; a part that is missing compares like NaN.  The three    *)
(* paths the installation touches hold a binary ("old", "new") or nothing     *)
(* ("none"):                                                                 *)
(*   upd.current  process.execPath                                           *)
(*   upd.backup   `${currentBinary}.backup`                                  *)
(*   upd.tmp      the downloaded binary in tmpdir()                           *)
(***************************************************************************)
MaxPart == 2
CURRENT_VERSION == <<0, 0, 2>>
TagNames == UNION {[1..n -> 0..MaxPart] : n \in 2..3}
BinaryNames == {"slackcli-linux", "slackcli-macos", "slackcli-windows.exe"}
AssetLists == {BinaryNames, {"slackcli-linux"}}
GitHubRelease(tag_name, assets) == [found |-> TRUE, tag_name |-> tag_name, assets |-> assets]
NoRelease == [found |-> FALSE, tag_name |-> <<>>, assets |-> {}]
Releases ==
  {NoRelease} \cup {GitHubRelease(tag_name, assets) : tag_name \in TagNames, assets \in AssetLists}

\* latestParts[i] > currentParts[i], false when a part is missing (NaN)
PartGreater(a, b, i) == i <= Len(a) /\ i <= Len(b) /\ a[i] > b[i]

\* isNewerVersion(latest, current): the first part that differs decides
RECURSIVE NewerFrom(_, _, _)
NewerFrom(latest, current, i) ==
  IF i > 3 THEN FALSE
  ELSE IF PartGreater(latest, current, i) THEN TRUE
  ELSE IF PartGreater(current, latest, i) THEN FALSE
  ELSE NewerFrom(latest, current, i + 1)
isNewerVersion(latest, current) == NewerFrom(latest, current, 1)

\* getBinaryName(): "none" where it throws
getBinaryName(platform) ==
  CASE platform = "linux" -> "slackcli-linux"
    [] platform = "darwin" -> "slackcli-macos"
    [] platform = "win32" -> "slackcli-windows.exe"
    [] OTHER -> "none"

UpdateFrame == UNCHANGED <<storeVars, clientVars, curlVars, batchVars, fsVars, raceVars, clip>>

UpdateThrew(u, at, message) == [u EXCEPT !.pc = "failed", !.at = at, !.threw = TRUE, !.message = message]

\* performUpdate() up to the download: the release, the version test, the asset
PerformUpdate ==
  /\ upd.pc \in {"idle", "done", "failed"}
  /\ upd.current /= "none"
  /\ \E release \in Releases, platform \in Platforms :
       LET u == [NoUpdate EXCEPT !.tag = release.tag_name, !.platform = platform,
                                 !.backup = upd.backup]
           binaryName == getBinaryName(platform)
       IN upd' =
            IF ~release.found
              THEN UpdateThrew(u, "release", <<"Unable to fetch latest release">>)
            ELSE IF ~isNewerVersion(release.tag_name, CURRENT_VERSION)
              THEN [u EXCEPT !.pc = "done"]
            ELSE IF binaryName = "none"
              THEN UpdateThrew(u, "platform", <<"Unsupported platform: ", platform>>)
            ELSE IF binaryName \notin release.assets
              THEN UpdateThrew(u, "asset", <<"Binary not found for ", binaryName>>)
            ELSE [u EXCEPT !.pc = "download"]
  /\ UpdateFrame

\* fetch(asset.browser_download_url), then writeFile and chmod of the temp file
DownloadBinary ==
  /\ upd.pc = "download"
  /\ \/ upd' = UpdateThrew(upd, "download", <<"Failed to download: ", "Not Found">>)
     \/ upd' = UpdateThrew(upd, "download", <<"fetch failed">>)
     \/ upd' = UpdateThrew(upd, "write", <<"ENOSPC">>)
     \/ upd' = [upd EXCEPT !.pc = "backup", !.tmp = "new"]
  /\ UpdateFrame

\* the catch block of the installation: the error is logged and thrown again
InstallFailed(u, at, message) == UpdateThrew(u, at, message)

\* await rename(currentBinary, backupPath)
BackupCurrent ==
  /\ upd.pc = "backup"
  /\ \/ upd' = [upd EXCEPT !.pc = "move", !.backup = upd.current, !.current = "none"]
     \/ upd' = InstallFailed(upd, "backup", <<"EACCES">>)
  /\ UpdateFrame

\* await rename(tmpPath, currentBinary)
MoveNewBinary ==
  /\ upd.pc = "move"
  /\ \/ upd' = [upd EXCEPT !.pc = "unlink", !.current = upd.tmp, !.tmp = "none"]
     \/ upd' = InstallFailed(upd, "move", <<"EXDEV">>)
  /\ UpdateFrame

\* await unlink(backupPath), then the success messages
RemoveBackup ==
  /\ upd.pc = "unlink"
  /\ \/ upd' = [upd EXCEPT !.pc = "done", !.backup = "none"]
     \/ upd' = InstallFailed(upd, "unlink", <<"EPERM">>)
  /\ UpdateFrame

UpdateNext == PerformUpdate \/ DownloadBinary \/ BackupCurrent \/ MoveNewBinary \/ RemoveBackup

UpdateSpec == Init /\ [][UpdateNext]_vars

\* C29: when performUpdate fails during the installation (the rename of the
\* current binary to its backup path, the move of the new binary into place,
\* the removal of the backup), the path of the running binary still holds a
\* binary
C29_BinaryInPlace ==
  (upd.pc = "failed" /\ upd.at \in {"backup", "move", "unlink"}) => upd.current /= "none"

====
